---------------------------- MODULE Spec2Model ----------------------------
(***************************************************************************)
(* A model of the tetrs game engine: the bit-packed Well, the Player       *)
(* transforms, the SRS wall kicks and the State machine that drives them.  *)
(*                                                                         *)
(* Representation.  A Line (u16) is modelled as the set of its set bit     *)
(* positions, a subset of 0..15: `&` is \cap, `|` is \cup, `!` is the      *)
(* complement in 0..15, rotate_right(n) maps bit b to (b - n) mod 16.      *)
(* A Sprite's pix rows (u8) are sets of bit positions too.  Column c of    *)
(* the well is bit 15 - c of a Line (col_range starts at 1 << 15).         *)
(* Option<T> is a sequence of length 0 (None) or 1 (Some).                 *)
(***************************************************************************)
EXTENDS Integers, Sequences, FiniteSets, TLC

(***************************************************************************)
(* Program constants.                                                      *)
(***************************************************************************)
SIZE_OF_WIDTH == 16
MAX_HEIGHT == 23
MAX_WIDTH == 12
MIN_WIDTH == 4
MIN_HEIGHT == 4

(***************************************************************************)
(* Bounds of the exploration.                                              *)
(***************************************************************************)
\* number of State commands issued in one run of the game specification
MaxOps == 5

\* number of turns of one player in the rotation specification
MaxTurns == 4

\* number of calls of OfficialBag::next in one run of the bag specification
MaxDeals == 15

\* number of commands in one game from State::new
MaxLife == 9

\* rows above the ceiling from which a run of soft drops starts
DropRowsAbove == 5

\* number of commands in one game with its scene
MaxScene == 6

(***************************************************************************)
(* Bit helpers.                                                            *)
(***************************************************************************)
BitPos == 0 .. (SIZE_OF_WIDTH - 1)

\* the set bits of a number below 2^16
Bits(n) == { b \in BitPos : (n \div (2 ^ b)) % 2 = 1 }

\* u16::rotate_right
RotateRight(line, n) == { (b - n) % SIZE_OF_WIDTH : b \in line }

\* `line << n` on u16: bits shifted past bit 15 are dropped
Shl(line, n) == { b + n : b \in { c \in line : c + n < SIZE_OF_WIDTH } }

None == << >>
Some(v) == << v >>

Point(x, y) == [x |-> x, y |-> y]

(***************************************************************************)
(* Pieces, rotations and sprites.                                          *)
(***************************************************************************)
Pieces == << "O", "I", "S", "Z", "L", "J", "T" >>
PieceSet == { Pieces[i] : i \in 1 .. 7 }
PieceIndex(piece) == CHOOSE i \in 0 .. 6 : Pieces[i + 1] = piece

\* Rot: Zero = 0, Right = 1, Two = 2, Left = 3
Rots == 0 .. 3
\* Rot::cw without the mask (wrapping_add(1) alone)
RotCwUnmasked(rot) == (rot + 1) % 256
RotCw(rot) == ((rot + 1) % 256) % 4
RotCcw(rot) == ((rot - 1) % 256) % 4

\* data!: sixteen rows a11 .. a44, row by row; sprite k takes column k.
\* b!: the token read as a binary number (X___ is 0b1000).
DataMacro(g) == [k \in 0 .. 3 |-> [y \in 0 .. 3 |-> Bits(g[y + 1][k + 1])]]

DATA ==
  << \* The O piece
     DataMacro(<< << \b0000, \b0000, \b0000, \b0000 >>,
                  << \b0110, \b0110, \b0110, \b0110 >>,
                  << \b0110, \b0110, \b0110, \b0110 >>,
                  << \b0000, \b0000, \b0000, \b0000 >> >>),
     \* The I piece
     DataMacro(<< << \b0000, \b0010, \b0000, \b0100 >>,
                  << \b1111, \b0010, \b0000, \b0100 >>,
                  << \b0000, \b0010, \b1111, \b0100 >>,
                  << \b0000, \b0010, \b0000, \b0100 >> >>),
     \* The S piece
     DataMacro(<< << \b0011, \b0010, \b0000, \b0100 >>,
                  << \b0110, \b0011, \b0011, \b0110 >>,
                  << \b0000, \b0001, \b0110, \b0010 >>,
                  << \b0000, \b0000, \b0000, \b0000 >> >>),
     \* The Z piece
     DataMacro(<< << \b0110, \b0001, \b0000, \b0010 >>,
                  << \b0011, \b0011, \b0110, \b0110 >>,
                  << \b0000, \b0010, \b0011, \b0100 >>,
                  << \b0000, \b0000, \b0000, \b0000 >> >>),
     \* The L piece
     DataMacro(<< << \b0001, \b0010, \b0000, \b0110 >>,
                  << \b0111, \b0010, \b0111, \b0010 >>,
                  << \b0000, \b0011, \b0100, \b0010 >>,
                  << \b0000, \b0000, \b0000, \b0000 >> >>),
     \* The J piece
     DataMacro(<< << \b0100, \b0011, \b0000, \b0010 >>,
                  << \b0111, \b0010, \b0111, \b0010 >>,
                  << \b0000, \b0010, \b0001, \b0110 >>,
                  << \b0000, \b0000, \b0000, \b0000 >> >>),
     \* The T piece
     DataMacro(<< << \b0010, \b0010, \b0000, \b0010 >>,
                  << \b0111, \b0011, \b0111, \b0110 >>,
                  << \b0000, \b0010, \b0010, \b0010 >>,
                  << \b0000, \b0000, \b0000, \b0000 >> >>) >>

\* TheRules::piece_sprite
piece_sprite(piece, rot) == DATA[PieceIndex(piece) + 1][rot]

(***************************************************************************)
(* Well.                                                                   *)
(***************************************************************************)
Rows == 0 .. (MAX_HEIGHT - 1)

\* the assertions of Well::new with the width compared to the size of a
\* Line instead of MAX_WIDTH
WellNewOkLineWide(width, height) ==
  /\ width >= MIN_WIDTH /\ width <= SIZE_OF_WIDTH
  /\ height >= MIN_HEIGHT /\ height <= MAX_HEIGHT

\* Well::new; the asserts are its precondition
WellNewOk(width, height) ==
  /\ width >= MIN_WIDTH /\ width <= MAX_WIDTH
  /\ height >= MIN_HEIGHT /\ height <= MAX_HEIGHT

WellNew(width, height) ==
  [width |-> width, height |-> height, field |-> [i \in Rows |-> {}]]

\* Well::from_data; lines are numbers in visual order (top line first)
FromData(width, lines) ==
  LET shift == SIZE_OF_WIDTH - width
      n == Len(lines)
  IN  [width |-> width, height |-> n,
       field |-> [i \in Rows |->
                    IF i < n THEN Shl(Bits(lines[n - i]), shift) ELSE {}]]

\* Well::line_mask: !((1 << shift) - 1)
LineMask(well) ==
  LET shift == SIZE_OF_WIDTH - well.width
  IN  BitPos \ { b \in BitPos : b < shift }

\* Well::line
Line(well, row) == well.field[row]

\* Well::render
Render(sprite, x) == [y \in 0 .. 3 |-> RotateRight(sprite[y], x + 4)]

\* Well::test with the early accept taken four rows too low (at the ceiling)
TestAcceptAtCeiling(well, sprite, pt) ==
  IF pt.x <= -4 \/ pt.x >= well.width \/ pt.y < 0 THEN TRUE
  ELSE IF pt.y >= well.height THEN FALSE
  ELSE
    LET spr == Render(sprite, pt.x)
        line_mask == LineMask(well)
    IN  \E y \in 0 .. 3 :
          \/ (spr[y] \ line_mask) # {}
          \/ LET row == pt.y - y
             IN  IF row < 0 THEN spr[y] # {}
                 ELSE (spr[y] \cap well.field[row]) # {}

\* Well::test without the check of the side walls
TestIgnoresWalls(well, sprite, pt) ==
  IF pt.x <= -4 \/ pt.x >= well.width \/ pt.y < 0 THEN TRUE
  ELSE IF pt.y >= well.height + 4 THEN FALSE
  ELSE
    LET spr == Render(sprite, pt.x)
    IN  \E y \in 0 .. 3 :
          LET row == pt.y - y
          IN  IF row < 0 THEN spr[y] # {}
              ELSE IF row < well.height
                   THEN (spr[y] \cap well.field[row]) # {}
                   ELSE FALSE

\* Well::test: TRUE when the sprite collides with the well
Test(well, sprite, pt) ==
  IF pt.x <= -4 \/ pt.x >= well.width \/ pt.y < 0 THEN TRUE
  ELSE IF pt.y >= well.height + 4 THEN FALSE
  ELSE
    LET spr == Render(sprite, pt.x)
        line_mask == LineMask(well)
    IN  \E y \in 0 .. 3 :
          \/ (spr[y] \ line_mask) # {}
          \/ LET row == pt.y - y
             IN  IF row < 0 THEN spr[y] # {}
                 ELSE IF row < well.height
                      THEN (spr[y] \cap well.field[row]) # {}
                      ELSE FALSE

\* Well::etch without the clip at the ceiling
EtchUnclipped(well, sprite, pt) ==
  LET spr == Render(sprite, pt.x)
  IN  [well EXCEPT !.field =
         [i \in Rows |->
            IF pt.y - i \in 0 .. 3
            THEN well.field[i] \cup spr[pt.y - i]
            ELSE well.field[i]]]

\* Well::etch rendering the sprite one column off (x + 3 instead of x + 4)
EtchOneColumnOff(well, sprite, pt) ==
  LET spr == Render(sprite, pt.x - 1)
  IN  [well EXCEPT !.field =
         [i \in Rows |->
            IF pt.y - i \in 0 .. 3 /\ i < well.height
            THEN well.field[i] \cup spr[pt.y - i]
            ELSE well.field[i]]]

\* Well::etch
Etch(well, sprite, pt) ==
  LET spr == Render(sprite, pt.x)
  IN  [well EXCEPT !.field =
         [i \in Rows |->
            IF pt.y - i \in 0 .. 3 /\ i < well.height
            THEN well.field[i] \cup spr[pt.y - i]
            ELSE well.field[i]]]


\* Well::wall_kick taking the last kicked point that does not collide
WallKickLast(well, sprite, kicks, pt) ==
  LET ok == { i \in 1 .. Len(kicks) :
                ~Test(well, sprite, Point(pt.x + kicks[i].x, pt.y + kicks[i].y)) }
  IN  IF ok = {} THEN None
      ELSE LET i == CHOOSE j \in ok : \A k \in ok : k <= j
           IN  Some(Point(pt.x + kicks[i].x, pt.y + kicks[i].y))

\* Well::wall_kick: the first kicked point that does not collide
RECURSIVE WallKickFrom(_, _, _, _, _)
WallKickFrom(well, sprite, kicks, pt, i) ==
  IF i > Len(kicks) THEN None
  ELSE LET p == Point(pt.x + kicks[i].x, pt.y + kicks[i].y)
       IN  IF ~Test(well, sprite, p) THEN Some(p)
           ELSE WallKickFrom(well, sprite, kicks, pt, i + 1)

\* Well::wall_kick passing over the first offset (kicks.iter().skip(1))
WallKickSkipsFirst(well, sprite, kicks, pt) == WallKickFrom(well, sprite, kicks, pt, 2)

WallKick(well, sprite, kicks, pt) == WallKickFrom(well, sprite, kicks, pt, 1)

\* Well::trace_down returning the point that collided instead of the one
\* above it
RECURSIVE TraceDownIntoCollision(_, _, _)
TraceDownIntoCollision(well, sprite, pt) ==
  LET next == Point(pt.x, pt.y - 1)
  IN  IF Test(well, sprite, next) THEN next
      ELSE TraceDownIntoCollision(well, sprite, next)

\* Well::trace_down
RECURSIVE TraceDown(_, _, _)
TraceDown(well, sprite, pt) ==
  LET next == Point(pt.x, pt.y - 1)
  IN  IF Test(well, sprite, next) THEN pt
      ELSE TraceDown(well, sprite, next)

\* Well::remove_line: the well after the call (the call returns Line(well, row))
RemoveLine(well, row) ==
  [well EXCEPT !.field =
     [i \in Rows |->
        IF i >= row /\ i < MAX_HEIGHT - 1 THEN well.field[i + 1]
        ELSE well.field[i]]]

\* Well::lines
Lines(well) == [i \in 0 .. (well.height - 1) |-> well.field[i]]

(***************************************************************************)
(* Player.                                                                 *)
(***************************************************************************)
PlayerNew(piece, rot, pt) == [piece |-> piece, rot |-> rot, pt |-> pt]

PlayerMoveLeft(pl) == [pl EXCEPT !.pt = Point(pl.pt.x - 1, pl.pt.y)]
PlayerMoveRight(pl) == [pl EXCEPT !.pt = Point(pl.pt.x + 1, pl.pt.y)]
PlayerMoveDown(pl) == [pl EXCEPT !.pt = Point(pl.pt.x, pl.pt.y - 1)]
PlayerRotateCw(pl) == [pl EXCEPT !.rot = RotCw(pl.rot)]
PlayerRotateCcw(pl) == [pl EXCEPT !.rot = RotCcw(pl.rot)]

\* Player::sprite: the sprite of the player's piece in its rotation
PlayerSprite(pl) == piece_sprite(pl.piece, pl.rot)

\* test_player / Well::test on a player
TestPlayer(well, pl) == Test(well, PlayerSprite(pl), pl.pt)

\* etch_player / Well::etch on a player
EtchPlayer(well, pl) == Etch(well, PlayerSprite(pl), pl.pt)

(***************************************************************************)
(* Super Rotation System.                                                  *)
(***************************************************************************)
\* srs!: four rows (one per rotation state) of five offsets
SrsRow(a, b, c, d, e) ==
  << Point(a[1], a[2]), Point(b[1], b[2]), Point(c[1], c[2]),
     Point(d[1], d[2]), Point(e[1], e[2]) >>

SRS_DATA_JLSTZ ==
  [cw |->
     << SrsRow(<< 0, 0>>, <<-1, 0>>, <<-1, 1>>, << 0,-2>>, <<-1,-2>>),
        SrsRow(<< 0, 0>>, << 1, 0>>, << 1,-1>>, << 0, 2>>, << 1, 2>>),
        SrsRow(<< 0, 0>>, << 1, 0>>, << 1, 1>>, << 0,-2>>, << 1,-2>>),
        SrsRow(<< 0, 0>>, <<-1, 0>>, <<-1,-1>>, << 0, 2>>, <<-1, 2>>) >>,
   ccw |->
     << SrsRow(<< 0, 0>>, << 1, 0>>, << 1, 1>>, << 0,-2>>, << 1,-2>>),
        SrsRow(<< 0, 0>>, <<-1, 0>>, <<-1,-1>>, << 0, 2>>, <<-1, 2>>),
        SrsRow(<< 0, 0>>, <<-1, 0>>, <<-1, 1>>, << 0,-2>>, <<-1,-2>>),
        SrsRow(<< 0, 0>>, << 1, 0>>, << 1,-1>>, << 0, 2>>, << 1, 2>>) >>]

SRS_DATA_I ==
  [cw |->
     << SrsRow(<< 0, 0>>, <<-2, 0>>, << 1, 0>>, <<-2,-1>>, << 1, 2>>),
        SrsRow(<< 0, 0>>, <<-1, 0>>, << 2, 0>>, <<-1, 2>>, << 2,-1>>),
        SrsRow(<< 0, 0>>, << 2, 0>>, <<-1, 0>>, << 2, 1>>, <<-1,-2>>),
        SrsRow(<< 0, 0>>, << 1, 0>>, <<-2, 0>>, << 1,-2>>, <<-2, 1>>) >>,
   ccw |->
     << SrsRow(<< 0, 0>>, <<-1, 0>>, << 2, 0>>, <<-1, 2>>, << 2,-1>>),
        SrsRow(<< 0, 0>>, <<-2, 0>>, << 1, 0>>, <<-2,-1>>, << 1, 2>>),
        SrsRow(<< 0, 0>>, << 1, 0>>, <<-2, 0>>, << 1,-2>>, <<-2, 1>>),
        SrsRow(<< 0, 0>>, << 2, 0>>, <<-1, 0>>, << 2, 1>>, <<-1,-2>>) >>]

srs_data_cw(piece, rot) ==
  LET src == IF piece = "I" THEN SRS_DATA_I ELSE SRS_DATA_JLSTZ
  IN  src.cw[rot + 1]

srs_data_ccw(piece, rot) ==
  LET src == IF piece = "I" THEN SRS_DATA_I ELSE SRS_DATA_JLSTZ
  IN  src.ccw[rot + 1]

srs_cw(well, player) ==
  LET rotated == PlayerRotateCw(player)
      sprite == PlayerSprite(rotated)
      kicks == srs_data_cw(player.piece, player.rot)
      kicked == WallKick(well, sprite, kicks, rotated.pt)
  IN  IF kicked = None THEN player
      ELSE PlayerNew(rotated.piece, rotated.rot, kicked[1])

srs_ccw(well, player) ==
  LET rotated == PlayerRotateCcw(player)
      sprite == PlayerSprite(rotated)
      kicks == srs_data_ccw(player.piece, player.rot)
      kicked == WallKick(well, sprite, kicks, rotated.pt)
  IN  IF kicked = None THEN player
      ELSE PlayerNew(rotated.piece, rotated.rot, kicked[1])

(***************************************************************************)
(* State: the commands, as functions of (well, player).  Each yields the   *)
(* well and player after the call and the value returned.                  *)
(***************************************************************************)
Result(w, p, r) == [well |-> w, player |-> p, ret |-> r]

\* State::lock etching the player one row lower
StateLockOneRowLower(w, p) ==
  IF p # None THEN Result(EtchPlayer(w, PlayerMoveDown(p[1])), None, TRUE)
  ELSE Result(w, p, TRUE)

\* State::lock
StateLock(w, p) ==
  IF p # None THEN Result(EtchPlayer(w, p[1]), None, TRUE)
  ELSE Result(w, p, TRUE)

\* State::move_left
StateMoveLeft(w, p) ==
  IF p = None THEN Result(w, p, FALSE)
  ELSE LET next == PlayerMoveLeft(p[1])
       IN  IF ~TestPlayer(w, next) THEN Result(w, Some(next), TRUE)
           ELSE Result(w, p, FALSE)

\* State::move_right stepping to the left
StateMoveRightGoesLeft(w, p) ==
  IF p = None THEN Result(w, p, FALSE)
  ELSE LET next == PlayerMoveLeft(p[1])
       IN  IF ~TestPlayer(w, next) THEN Result(w, Some(next), TRUE)
           ELSE Result(w, p, FALSE)

\* State::move_right
StateMoveRight(w, p) ==
  IF p = None THEN Result(w, p, FALSE)
  ELSE LET next == PlayerMoveRight(p[1])
       IN  IF ~TestPlayer(w, next) THEN Result(w, Some(next), TRUE)
           ELSE Result(w, p, FALSE)

\* Well::test_wall_kick for a clockwise turn: TRUE when every kick collides,
\* otherwise the kicked player
TestWallKickCw(w, player, next) ==
  LET kicked == WallKick(w, PlayerSprite(next),
                         srs_data_cw(player.piece, player.rot), next.pt)
  IN  IF kicked = None THEN [hit |-> TRUE, next |-> next]
      ELSE [hit |-> FALSE, next |-> [next EXCEPT !.pt = kicked[1]]]

\* Well::test_wall_kick for a counter-clockwise turn
TestWallKickCcw(w, player, next) ==
  LET kicked == WallKick(w, PlayerSprite(next),
                         srs_data_ccw(player.piece, player.rot), next.pt)
  IN  IF kicked = None THEN [hit |-> TRUE, next |-> next]
      ELSE [hit |-> FALSE, next |-> [next EXCEPT !.pt = kicked[1]]]

\* State::rotate_cw
StateRotateCw(w, p) ==
  IF p = None THEN Result(w, p, FALSE)
  ELSE LET next == PlayerRotateCw(p[1])
       IN  IF ~TestPlayer(w, next) THEN Result(w, Some(next), TRUE)
           ELSE LET k == TestWallKickCw(w, p[1], next)
                IN  IF ~k.hit THEN Result(w, Some(k.next), TRUE)
                    ELSE Result(w, p, FALSE)

\* State::rotate_ccw
StateRotateCcw(w, p) ==
  IF p = None THEN Result(w, p, FALSE)
  ELSE LET next == PlayerRotateCcw(p[1])
       IN  IF ~TestPlayer(w, next) THEN Result(w, Some(next), TRUE)
           ELSE LET k == TestWallKickCcw(w, p[1], next)
                IN  IF ~k.hit THEN Result(w, Some(k.next), TRUE)
                    ELSE Result(w, p, FALSE)

\* State::soft_drop locking the player one row below where it stands
StateSoftDropLocksBelow(w, p) ==
  IF p = None THEN Result(w, p, FALSE)
  ELSE LET next == PlayerMoveDown(p[1])
       IN  IF ~TestPlayer(w, next) THEN Result(w, Some(next), TRUE)
           ELSE LET locked == StateLock(w, Some(next))
                IN  Result(locked.well, locked.player, FALSE)

\* State::soft_drop leaving a stuck player active
StateSoftDropFloats(w, p) ==
  IF p = None THEN Result(w, p, FALSE)
  ELSE LET next == PlayerMoveDown(p[1])
       IN  IF ~TestPlayer(w, next) THEN Result(w, Some(next), TRUE)
           ELSE Result(w, p, FALSE)

\* State::soft_drop
StateSoftDrop(w, p) ==
  IF p = None THEN Result(w, p, FALSE)
  ELSE LET next == PlayerMoveDown(p[1])
       IN  IF ~TestPlayer(w, next) THEN Result(w, Some(next), TRUE)
           ELSE LET locked == StateLock(w, p)
                IN  Result(locked.well, locked.player, FALSE)

\* State::hard_drop descending at most one row
HardDropOneRow(w, player) ==
  LET next == PlayerMoveDown(player)
      rest == IF TestPlayer(w, next) THEN player ELSE next
      locked == StateLock(w, Some(rest))
  IN  Result(locked.well, locked.player, TRUE)

\* State::hard_drop: the loop, from the player it has reached
RECURSIVE HardDropLoop(_, _)
HardDropLoop(w, player) ==
  LET next == PlayerMoveDown(player)
  IN  IF TestPlayer(w, next)
      THEN LET locked == StateLock(w, Some(player))
           IN  Result(locked.well, locked.player, TRUE)
      ELSE HardDropLoop(w, next)

\* State::hard_drop returning true without a player
StateHardDropAlwaysTrue(w, p) ==
  IF p = None THEN Result(w, p, TRUE)
  ELSE HardDropLoop(w, p[1])

\* State::hard_drop
StateHardDrop(w, p) ==
  IF p = None THEN Result(w, p, FALSE)
  ELSE HardDropLoop(w, p[1])

\* State::gravity
StateGravity(w, p) == StateSoftDrop(w, p)

\* State::spawn placing the player one row too low
StateSpawnOneRowLower(w, p, piece) ==
  LET pl == PlayerNew(piece, 0,
                      Point((w.width \div 2) - 2,
                            w.height - 1 - (IF piece # "O" /\ piece # "I" THEN 1 ELSE 0)))
  IN  Result(w, Some(pl), TestPlayer(w, pl))

\* State::spawn keeping the previous player when the spawn point collides
StateSpawnUnlessCollides(w, p, piece) ==
  LET pl == PlayerNew(piece, 0,
                      Point((w.width \div 2) - 2,
                            w.height - (IF piece # "O" /\ piece # "I" THEN 1 ELSE 0)))
  IN  IF TestPlayer(w, pl) THEN Result(w, p, TRUE)
      ELSE Result(w, Some(pl), FALSE)

\* State::spawn
StateSpawn(w, p, piece) ==
  LET pl == PlayerNew(piece, 0,
                      Point((w.width \div 2) - 2,
                            w.height - (IF piece # "O" /\ piece # "I" THEN 1 ELSE 0)))
  IN  Result(w, Some(pl), TestPlayer(w, pl))

\* State::is_game_over
IsGameOver(w) ==
  LET lines == Lines(w)
      height == w.height
  IN  lines[height - 1] # {} \/ lines[height - 2] # {}

(***************************************************************************)
(* The state of a run.                                                     *)
(*   well, player  the fields of State                                     *)
(*   pc            "idle", or "clearing" inside State::clear_lines         *)
(*   cl            the locals of State::clear_lines: row, lines_cleared,   *)
(*                 and the arguments passed to the callback so far (calls) *)
(*   last          the last call made: its name, its arguments and the     *)
(*                 value it returned                                       *)
(*   pre           the well and the player when the last call was entered  *)
(*   nops          the number of commands issued so far                    *)
(***************************************************************************)
VARIABLES well, player, pc, cl, last, pre, nops, bot

vars == << well, player, pc, cl, last, pre, nops, bot >>

Call(op, arg, ret) == [op |-> op, arg |-> arg, ret |-> ret]

NoClear == [row |-> 0, lines_cleared |-> 0, calls |-> << >>]

\* no search of the bot in progress
NoBot == [weights |-> << >>, start |-> << >>, path |-> << >>, visited |-> {},
          best |-> << >>, pushed |-> 0]
Entry(w, p) == [well |-> w, player |-> p]

\* a well of `filler` lines below the given top lines (visual order)
Stack(top, filler, n) == top \o [i \in 1 .. n |-> filler]

\* the wells a game starts from: State::with_well(Well::from_data(..))
GameWells ==
  { FromData(4, << \b0000, \b0000, \b0000, \b0000 >>),
    FromData(4, << \b0000, \b0000, \b1001, \b1001 >>),
    FromData(4, << \b0000, \b0100, \b0110, \b1110 >>),
    FromData(4, << \b0000, \b1111, \b0100, \b1111 >>),
    FromData(4, << \b0000, \b0000, \b0001, \b1011 >>),
    FromData(5, << \b00000, \b00000, \b00000, \b10000, \b11001 >>),
    FromData(5, << \b00000, \b00001, \b10011, \b11111, \b10111 >>),
    FromData(7, << \b0000000, \b0001000, \b1111111, \b1110011 >>),
    FromData(10, << \b0000000000, \b0000000000, \b0000110000, \b1111001111,
                    \b1111001111 >>),
    FromData(12, << \b000000000000, \b000001000000, \b111100111111,
                    \b111111111111 >>),
    FromData(4, Stack(<< \b1111, \b0000, \b0000, \b1111 >>, \b1011, MAX_HEIGHT - 4)),
    FromData(4, Stack(<< \b0100, \b0000, \b1111, \b1111 >>, \b1101, MAX_HEIGHT - 4)) }

Init ==
  /\ well \in GameWells
  /\ player = None
  /\ pc = "idle"
  /\ cl = NoClear
  /\ last = Call("with_well", << >>, TRUE)
  /\ pre = Entry(well, player)
  /\ nops = 0
  /\ bot = NoBot

\* a command that runs to completion in one step
Command(op, arg, res) ==
  /\ pc = "idle"
  /\ nops < MaxOps
  /\ well' = res.well
  /\ player' = res.player
  /\ last' = Call(op, arg, res.ret)
  /\ pre' = Entry(well, player)
  /\ nops' = nops + 1
  /\ cl' = NoClear
  /\ pc' = pc
  /\ bot' = bot

MoveLeft == Command("move_left", << >>, StateMoveLeft(well, player))
MoveRight == Command("move_right", << >>, StateMoveRight(well, player))
RotateCw == Command("rotate_cw", << >>, StateRotateCw(well, player))
RotateCcw == Command("rotate_ccw", << >>, StateRotateCcw(well, player))
SoftDrop == Command("soft_drop", << >>, StateSoftDrop(well, player))
HardDrop == Command("hard_drop", << >>, StateHardDrop(well, player))
Gravity == Command("gravity", << >>, StateGravity(well, player))
Lock == Command("lock", << >>, StateLock(well, player))
Spawn == \E piece \in PieceSet :
           Command("spawn", << piece >>, StateSpawn(well, player, piece))

\* State::clear_lines, entry: the locals are initialised
ClearLinesBegin ==
  /\ pc = "idle"
  /\ nops < MaxOps
  /\ pc' = "clearing"
  /\ cl' = NoClear
  /\ last' = Call("clear_lines", << >>, TRUE)
  /\ pre' = Entry(well, player)
  /\ nops' = nops + 1
  /\ UNCHANGED << well, player, bot >>

\* Scene::remove_line indexes tiles[row .. top] with top = height - 2: the
\* slice is out of order, and the call panics, when row is the top row
SceneRemoveLinePanics(height, row) == row > height - 2

\* State::clear_lines, one iteration of the while loop.  The exploration
\* of a call stops once it has made more callbacks than the field has rows.
ClearLinesStep ==
  /\ pc = "clearing"
  /\ cl.row < well.height
  /\ Len(cl.calls) <= MAX_HEIGHT
  /\ ~(/\ Line(well, cl.row) = LineMask(well)
        /\ SceneRemoveLinePanics(well.height, cl.row))
  /\ IF Line(well, cl.row) = LineMask(well)
     THEN /\ cl' = [cl EXCEPT !.calls = Append(@, cl.row + cl.lines_cleared),
                              !.lines_cleared = @ + 1]
          /\ well' = RemoveLine(well, cl.row)
     ELSE /\ cl' = [cl EXCEPT !.row = @ + 1]
          /\ well' = well
  /\ UNCHANGED << player, pc, last, pre, nops, bot >>

\* State::clear_lines, an iteration that finds the top row full: the
\* callback and Well::remove_line have run when Scene::remove_line panics
ClearLinesPanics ==
  /\ pc = "clearing"
  /\ cl.row < well.height
  /\ Len(cl.calls) <= MAX_HEIGHT
  /\ Line(well, cl.row) = LineMask(well)
  /\ SceneRemoveLinePanics(well.height, cl.row)
  /\ cl' = [cl EXCEPT !.calls = Append(@, cl.row + cl.lines_cleared)]
  /\ well' = RemoveLine(well, cl.row)
  /\ pc' = "panicked"
  /\ UNCHANGED << player, last, pre, nops, bot >>

\* State::clear_lines, return
ClearLinesEnd ==
  /\ pc = "clearing"
  /\ ~(cl.row < well.height)
  /\ pc' = "idle"
  /\ UNCHANGED << well, player, cl, last, pre, nops, bot >>

Next ==
  \/ MoveLeft
  \/ MoveRight
  \/ RotateCw
  \/ RotateCcw
  \/ SoftDrop
  \/ HardDrop
  \/ Gravity
  \/ Lock
  \/ Spawn
  \/ ClearLinesBegin
  \/ ClearLinesStep
  \/ ClearLinesPanics
  \/ ClearLinesEnd

Spec == Init /\ [][Next]_vars

(***************************************************************************)
(* The Well on its own: one call of a Well method on a well built by       *)
(* Well::from_data, with the sprite and the point drawn from bounded sets. *)
(***************************************************************************)
SpriteOf(a, b, c, d) == [y \in 0 .. 3 |-> Bits(<< a, b, c, d >>[y + 1])]

\* the sprites of the seven pieces and the sprites of the unit tests
Sprites ==
  { piece_sprite(piece, rot) : piece \in PieceSet, rot \in Rots }
    \cup { SpriteOf(\b1000, \b0111, \b1110, \b0001),
           SpriteOf(\b0000, \b0110, \b0110, \b0110),
           SpriteOf(\b0001, \b0111, \b0000, \b0000),
           SpriteOf(\b0010, \b0010, \b0010, \b0010) }

WellInputs ==
  GameWells \cup
  { FromData(10, << \b0000000001, \b0000000001, \b1100010001, \b1101110001 >>),
    FromData(12, << \b000000000000, \b100000000001, \b010000000010,
                    \b111100001111, \b111111111111 >>) }

\* the points around and inside the well
PointsOf(w) ==
  { Point(x, y) : x \in (-5) .. (w.width + 1), y \in (-2) .. (w.height + 5) }

InitWell ==
  /\ well \in WellInputs
  /\ player = None
  /\ pc = "idle"
  /\ cl = NoClear
  /\ last = Call("from_data", << >>, TRUE)
  /\ pre = Entry(well, player)
  /\ nops = 0
  /\ bot = NoBot

\* a call of a Well method (made on the fresh well: see the guards)
WellCall(op, arg, ret, w) ==
  /\ last' = Call(op, arg, ret)
  /\ pre' = Entry(well, player)
  /\ well' = w
  /\ nops' = nops + 1
  /\ UNCHANGED << player, pc, cl, bot >>

WellTest ==
  /\ last.op = "from_data"
  /\ \E sprite \in Sprites, pt \in PointsOf(well) :
       WellCall("test", << sprite, pt >>, Test(well, sprite, pt), well)

WellEtch ==
  /\ last.op = "from_data"
  /\ \E sprite \in Sprites, pt \in PointsOf(well) :
       WellCall("etch", << sprite, pt >>, TRUE, Etch(well, sprite, pt))

NextWell ==
  \/ WellTest
  \/ WellEtch

SpecWell == InitWell /\ [][NextWell]_vars

(***************************************************************************)
(* The first spawn of a game, on wells of every allowed width.             *)
(***************************************************************************)
\* the heights of the wells a first spawn is tried on
SpawnHeights == {MIN_HEIGHT, 9, MAX_HEIGHT}

\* a line of the given width with one block at column col, empty if col = -1
OneBlock(width, col) == IF col < 0 THEN 0 ELSE 2 ^ (width - 1 - col)

\* a well whose rows below the top two lack only column 0, with at most one
\* block in each of the top two rows (columns a and b)
SpawnWell(width, height, a, b) ==
  FromData(width, << OneBlock(width, a), OneBlock(width, b) >>
                    \o [i \in 1 .. (height - 2) |-> 2 ^ (width - 1) - 1])

SpawnWells ==
  UNION { { SpawnWell(width, height, a, b) :
              a \in (-1) .. (width - 1), b \in (-1) .. (width - 1) } :
          width \in MIN_WIDTH .. MAX_WIDTH, height \in SpawnHeights }

InitSpawn ==
  /\ well \in SpawnWells
  /\ player = None
  /\ pc = "idle"
  /\ cl = NoClear
  /\ last = Call("with_well", << >>, TRUE)
  /\ pre = Entry(well, player)
  /\ nops = 0
  /\ bot = NoBot

\* State::spawn as the first command of the game
FirstSpawn ==
  /\ last.op = "with_well"
  /\ Spawn

NextSpawn ==
  \/ FirstSpawn

SpecSpawn == InitSpawn /\ [][NextSpawn]_vars

(***************************************************************************)
(* Cell-level reading of wells and sprites, used to state the properties.  *)
(***************************************************************************)
\* cell (row r, column c) of a 4x4 sprite; column 0 is the leftmost
SpriteCell(sprite, r, c) == (3 - c) \in sprite[r]

\* cell (column col, row row) of the well is occupied
Occupied(w, col, row) == (SIZE_OF_WIDTH - 1 - col) \in w.field[row]

\* the board cells << col, row >> covered by the sprite placed at pt
Cells(sprite, pt) ==
  { << pt.x + c, pt.y - r >> :
      << r, c >> \in { rc \in (0 .. 3) \X (0 .. 3) : SpriteCell(sprite, rc[1], rc[2]) } }

\* the occupied cells of the well in rows [0, height)
Blocks(w) ==
  { << col, row >> \in (0 .. (SIZE_OF_WIDTH - 1)) \X (0 .. (w.height - 1)) :
      Occupied(w, col, row) }

(***************************************************************************)
(* C1.  Well::test(sprite, pt) is TRUE exactly when pt.x <= -4,            *)
(* pt.x >= width or pt.y < 0, or, for pt.y < height + 4, when some set     *)
(* cell of the sprite lies outside columns [0, width), below row 0, or on  *)
(* an occupied cell of a row in [0, height); the well is not modified.     *)
(***************************************************************************)
Illegal(w, sprite, pt) ==
  \/ pt.x <= -4
  \/ pt.x >= w.width
  \/ pt.y < 0
  \/ /\ pt.y < w.height + 4
     /\ \E cell \in Cells(sprite, pt) :
          \/ cell[1] < 0
          \/ cell[1] >= w.width
          \/ cell[2] < 0
          \/ cell[2] < w.height /\ Occupied(w, cell[1], cell[2])

C1_TestIsCellCollision ==
  last.op = "test" =>
    /\ last.ret = Illegal(pre.well, last.arg[1], last.arg[2])
    /\ well = pre.well

\* a placement at negative x that sticks out above the ceiling of a well
\* holding blocks was tested and found legal
C1_Witness ==
  /\ last.op = "test"
  /\ last.ret = FALSE
  /\ last.arg[2].x < 0
  /\ last.arg[2].y < well.height + 4
  /\ Blocks(well) # {}
  /\ \E cell \in Cells(last.arg[1], last.arg[2]) : cell[2] >= well.height

(***************************************************************************)
(* C2.  For a placement that Well::test reports legal, Well::etch sets     *)
(* exactly the board cells of the set sprite cells whose row lies in       *)
(* [0, height), clears no cell and leaves every other cell, the width and  *)
(* the height unchanged, also for negative pt.x.                           *)
(***************************************************************************)
C2_EtchSetsSpriteCells ==
  (last.op = "etch" /\ ~Test(pre.well, last.arg[1], last.arg[2])) =>
    /\ Blocks(well) =
         Blocks(pre.well) \cup
           { cell \in Cells(last.arg[1], last.arg[2]) :
               cell[2] \in 0 .. (pre.well.height - 1) }
    /\ well.width = pre.well.width
    /\ well.height = pre.well.height
    /\ \A i \in Rows : i >= well.height => well.field[i] = pre.well.field[i]
    /\ \A i \in Rows : well.field[i] \subseteq LineMask(well) \cup pre.well.field[i]

\* the O sprite was etched legally at x = -1 into columns 0 and 1, and a
\* legal etch had a cell clipped away above the ceiling
C2_Witness ==
  /\ last.op = "etch"
  /\ ~Test(pre.well, last.arg[1], last.arg[2])
  /\ last.arg[2].x = -1
  /\ last.arg[1] = piece_sprite("O", 0)
  /\ Blocks(well) \ Blocks(pre.well) =
       { << 0, last.arg[2].y - 1 >>, << 1, last.arg[2].y - 1 >>,
         << 0, last.arg[2].y - 2 >>, << 1, last.arg[2].y - 2 >> }

(***************************************************************************)
(* Readings of the State commands used to state the properties.            *)
(***************************************************************************)
\* the placement of a player is illegal, read cell by cell
IllegalPlayer(w, pl) == Illegal(w, piece_sprite(pl.piece, pl.rot), pl.pt)

\* the player moved by (dx, dy)
Moved(pl, dx, dy) == PlayerNew(pl.piece, pl.rot, Point(pl.pt.x + dx, pl.pt.y + dy))

\* the last call was `op`, made with an active player
Did(ops) == last.op \in ops /\ pre.player # None

(***************************************************************************)
(* C3.  State::soft_drop with an active player: if the position one row    *)
(* down is legal the player moves there, the well is unchanged and true is *)
(* returned; otherwise the player is etched into the well where it stands, *)
(* the player slot becomes empty and false is returned.  State::gravity    *)
(* behaves identically.                                                    *)
(***************************************************************************)
C3_SoftDropMovesOrLocks ==
  Did({"soft_drop", "gravity"}) =>
    LET p == pre.player[1]
        down == Moved(p, 0, -1)
    IN  IF ~IllegalPlayer(pre.well, down)
        THEN /\ player = Some(down)
             /\ well = pre.well
             /\ last.ret = TRUE
        ELSE /\ player = None
             /\ well = Etch(pre.well, piece_sprite(p.piece, p.rot), p.pt)
             /\ last.ret = FALSE

\* a gravity call locked a piece that rested on blocks of the well
C3_Witness ==
  /\ Did({"gravity"})
  /\ last.ret = FALSE
  /\ player = None
  /\ pre.player[1].pt.y > 2
  /\ ~IllegalPlayer(pre.well, pre.player[1])
  /\ Cardinality(Blocks(well)) = Cardinality(Blocks(pre.well)) + 4

(***************************************************************************)
(* C4.  State::hard_drop with an active player at a legal position returns *)
(* true, empties the player slot and leaves the old well with the player's *)
(* sprite etched at trace_down(sprite, player.pt); this is the well that   *)
(* calling soft_drop until it returns false produces.                      *)
(***************************************************************************)
RECURSIVE SoftDropUntilFalse(_, _)
SoftDropUntilFalse(w, p) ==
  LET r == StateSoftDrop(w, p)
  IN  IF r.ret THEN SoftDropUntilFalse(r.well, r.player) ELSE r

C4_HardDropIsTraceDown ==
  (Did({"hard_drop"}) /\ ~IllegalPlayer(pre.well, pre.player[1])) =>
    LET p == pre.player[1]
        sprite == piece_sprite(p.piece, p.rot)
        rest == TraceDown(pre.well, sprite, p.pt)
    IN  /\ last.ret = TRUE
        /\ player = None
        /\ rest.x = p.pt.x
        /\ well = Etch(pre.well, sprite, rest)
        /\ well = SoftDropUntilFalse(pre.well, pre.player).well

\* a hard drop carried a piece down by at least two rows
C4_Witness ==
  /\ Did({"hard_drop"})
  /\ ~IllegalPlayer(pre.well, pre.player[1])
  /\ player = None
  /\ LET p == pre.player[1]
     IN  TraceDown(pre.well, piece_sprite(p.piece, p.rot), p.pt).y <= p.pt.y - 2

(***************************************************************************)
(* C5.  With an active player, State::move_left (move_right) changes the   *)
(* player's x by -1 (+1), keeping y, rotation and piece, and returns true  *)
(* if and only if the translated position is legal; otherwise it returns   *)
(* false and player and well are as before the call.                       *)
(***************************************************************************)
C5_MoveSideways ==
  Did({"move_left", "move_right"}) =>
    LET p == pre.player[1]
        side == Moved(p, IF last.op = "move_left" THEN -1 ELSE 1, 0)
    IN  /\ well = pre.well
        /\ last.ret = ~IllegalPlayer(pre.well, side)
        /\ player = IF last.ret THEN Some(side) ELSE pre.player

\* a move to the right was refused by a block of the well, not by the wall
C5_Witness ==
  /\ Did({"move_right"})
  /\ last.ret = FALSE
  /\ player = pre.player
  /\ LET p == pre.player[1]
     IN  \A cell \in Cells(piece_sprite(p.piece, p.rot), Point(p.pt.x + 1, p.pt.y)) :
           cell[1] < well.width

(***************************************************************************)
(* C6.  With an active player, State::rotate_cw / rotate_ccw (and srs_cw / *)
(* srs_ccw) produce the player turned one step in that direction, placed   *)
(* at the first legal position among the un-kicked position followed by    *)
(* the SRS kick offsets of (piece class, rotation before the turn,         *)
(* direction) in table order.  If every candidate collides the player is   *)
(* unchanged and the State command returns false; otherwise true.          *)
(***************************************************************************)
Turned(w, p, cw) ==
  LET rot == IF cw THEN (p.rot + 1) % 4 ELSE (p.rot + 3) % 4
      table == IF cw THEN srs_data_cw(p.piece, p.rot) ELSE srs_data_ccw(p.piece, p.rot)
      offsets == << Point(0, 0) >> \o table
      legal == { i \in 1 .. Len(offsets) :
                   ~IllegalPlayer(w, PlayerNew(p.piece, rot,
                                     Point(p.pt.x + offsets[i].x, p.pt.y + offsets[i].y))) }
  IN  IF legal = {} THEN [ok |-> FALSE, player |-> p]
      ELSE LET i == CHOOSE j \in legal : \A k \in legal : j <= k
           IN  [ok |-> TRUE,
                player |-> PlayerNew(p.piece, rot,
                             Point(p.pt.x + offsets[i].x, p.pt.y + offsets[i].y))]

C6_WitnessRefused ==
  /\ Did({"rotate_cw", "rotate_ccw"})
  /\ last.ret = FALSE
  /\ ~IllegalPlayer(well, pre.player[1])

FullRows(w) == { row \in 0 .. (w.height - 1) : Line(w, row) = LineMask(w) }

\* the lines of [0, height) that are not full, bottom to top
RECURSIVE KeptFrom(_, _)
KeptFrom(w, row) ==
  IF row >= w.height THEN << >>
  ELSE (IF row \in FullRows(w) THEN << >> ELSE << Line(w, row) >>) \o KeptFrom(w, row + 1)

\* a clear_lines call has returned
Cleared == last.op = "clear_lines" /\ pc = "idle"

(***************************************************************************)
(* C8.  After State::clear_lines, rows [0, height) of the well are exactly *)
(* the previously non-full rows in their original bottom-to-top order,     *)
(* followed by empty rows; no row in [0, height) equals line_mask; and the *)
(* callback was invoked once per previously full row.                      *)
(***************************************************************************)
C8_ClearLinesCompacts ==
  Cleared =>
    LET kept == KeptFrom(pre.well, 0)
    IN  /\ \A row \in 0 .. (well.height - 1) :
             Line(well, row) = IF row < Len(kept) THEN kept[row + 1] ELSE {}
        /\ FullRows(well) = {}
        /\ Len(cl.calls) = Cardinality(FullRows(pre.well))

(***************************************************************************)
(* C9.  The row indices passed to the clear_lines callback are strictly    *)
(* increasing and are exactly the original (pre-clear) indices of the full *)
(* rows.                                                                   *)
(***************************************************************************)
C9_CallbackRowsAreOriginal ==
  last.op = "clear_lines" =>
    /\ \A i, j \in 1 .. Len(cl.calls) : i < j => cl.calls[i] < cl.calls[j]
    /\ \A i \in 1 .. Len(cl.calls) : cl.calls[i] \in FullRows(pre.well)
    /\ pc = "idle" => { cl.calls[i] : i \in 1 .. Len(cl.calls) } = FullRows(pre.well)

(***************************************************************************)
(* C10.  When State::spawn reports a collision (returns true),             *)
(* State::is_game_over is true immediately afterwards; is_game_over is     *)
(* true if and only if row height-1 or row height-2 of the well has an     *)
(* occupied cell.                                                          *)
(***************************************************************************)
TopTwoOccupied(w) ==
  \E col \in 0 .. (w.width - 1), row \in {w.height - 1, w.height - 2} :
    Occupied(w, col, row)

NEG_INFINITY == [inf |-> -1, v |-> 0]
INFINITY == [inf |-> 1, v |-> 0]
Finite(v) == [inf |-> 0, v |-> v]

\* f64 `a > b` and `a < b`
ScoreGt(a, b) == a.inf > b.inf \/ (a.inf = 0 /\ b.inf = 0 /\ a.v > b.v)
ScoreLt(a, b) == ScoreGt(b, a)

\* f64::max
ScoreMax(a, b) == IF ScoreGt(b, a) THEN b ELSE a

\* Well::col_range as bit positions: start is the first column, end lies one
\* past the last column
ColRange(w) == [start |-> SIZE_OF_WIDTH - 1, end |-> SIZE_OF_WIDTH - w.width - 1]

\* ColRange::mask
RangeMask(range) == { b \in BitPos : range.end < b /\ b <= range.start }

\* Well::_flood_fill: the field after the call; x is a bit position
RECURSIVE FloodFill(_, _, _, _)
RECURSIVE FloodEach(_, _, _, _, _)

\* the `for it in range.clone()` loops of _flood_fill: flood row `to` from
\* every column `it` of the range whose cell is still empty, left to right
FloodEach(w, field, range, to, it) ==
  IF it = range.end THEN field
  ELSE LET f == IF it \notin field[to] THEN FloodFill(w, field, to, it) ELSE field
       IN  FloodEach(w, f, range, to, it - 1)

FloodFill(w, field, y, x) ==
  LET whole == ColRange(w)
      LeftEdge[left \in BitPos] ==
        IF left < whole.start /\ (left + 1) \notin field[y]
        THEN LeftEdge[left + 1] ELSE left
      RightEdge[right \in BitPos] ==
        IF right > whole.end /\ right \notin field[y]
        THEN RightEdge[right - 1] ELSE right
      range == IF field[y] # {} THEN [start |-> LeftEdge[x], end |-> RightEdge[x]]
               ELSE whole
      mask == RangeMask(range)
      f1 == [field EXCEPT ![y] = @ \cup mask]
  IN  IF y >= 1 /\ f1[y - 1] \cap mask = {}
      THEN FloodFill(w, f1, y - 1, range.start)
      ELSE LET f2 == IF y >= 1 THEN FloodEach(w, f1, range, y - 1, range.start)
                     ELSE f1
           IN  IF y + 1 < w.height /\ ~(mask \subseteq f2[y + 1])
               THEN FloodEach(w, f2, range, y + 1, range.start)
               ELSE f2

\* Well::flood_fill from the seed point
FloodFillSeed(w, seed) ==
  [w EXCEPT !.field = FloodFill(w, w.field, seed.y, SIZE_OF_WIDTH - 1 - seed.x)]

\* u16::count_ones summed over Well::lines
CountBlocks(w) ==
  LET RECURSIVE Sum(_)
      Sum(row) == IF row >= w.height THEN 0
                  ELSE Cardinality(w.field[row]) + Sum(row + 1)
  IN  Sum(0)

\* Well::count_holes
CountHoles(w) ==
  LET seed == Point(w.width \div 2, w.height - 1)
      filled == FloodFillSeed(w, seed)
  IN  filled.width * filled.height - CountBlocks(filled)

\* the columns of the arrays of crunch
Cols == 0 .. (MAX_WIDTH - 1)

\* Weights::crunch: one iteration of `for &line in well.lines()`; `line & 1`
\* followed by `line >>= 1` reads bit col of the line in iteration col
CrunchLine(w, acc, line) ==
  IF line = LineMask(w) THEN [acc EXCEPT !.lines = @ + 1]
  ELSE LET height == acc.height + 1
           hit(col) == col < w.width /\ col \in line
           holes == [col \in Cols |->
                       IF hit(col) THEN acc.holes[col] + height - acc.heights[col] - 1
                       ELSE acc.holes[col]]
       IN  [acc EXCEPT !.height = height,
                       !.holes = holes,
                       !.heights = [col \in Cols |->
                                      IF hit(col) THEN height ELSE acc.heights[col]],
                       !.stacks = [col \in Cols |->
                                     IF hit(col) /\ holes[col] # 0
                                     THEN acc.stacks[col] + 1 ELSE acc.stacks[col]]]

RECURSIVE CrunchLines(_, _, _)
CrunchLines(w, acc, row) ==
  IF row >= w.height THEN acc
  ELSE CrunchLines(w, CrunchLine(w, acc, Line(w, row)), row + 1)

\* sum and maximum of a[0 .. n-1]
RECURSIVE SumTo(_, _)
SumTo(a, n) == IF n = 0 THEN 0 ELSE a[n - 1] + SumTo(a, n - 1)
RECURSIVE MaxTo(_, _)
MaxTo(a, n) ==
  IF n = 1 THEN a[0]
  ELSE LET m == MaxTo(a, n - 1) IN IF a[n - 1] > m THEN a[n - 1] ELSE m

Abs(i) == IF i < 0 THEN -i ELSE i

\* Weights::crunch: the arrays and counters after the loop over the lines
CrunchScan(w) ==
  LET zero == [col \in Cols |-> 0]
  IN  CrunchLines(w, [heights |-> zero, holes |-> zero, stacks |-> zero,
                      lines |-> 0, height |-> 0], 0)

\* Weights::crunch with the two hole counts of the caves swapped
CrunchCavesSwapped(w) ==
  LET acc == CrunchScan(w)
      holes_sum == CountHoles(w)
      diffs == [i \in 0 .. (w.width - 2) |-> Abs(acc.heights[i] - acc.heights[i + 1])]
  IN  [agg_height |-> SumTo(acc.heights, w.width),
       max_height |-> MaxTo(acc.heights, w.width),
       completed_lines |-> acc.lines,
       holes |-> holes_sum,
       caves |-> holes_sum - SumTo(acc.holes, w.width),
       bumpiness |-> SumTo(diffs, w.width - 1),
       stacks |-> SumTo(acc.stacks, w.width)]

\* Weights::crunch
Crunch(w) ==
  LET acc == CrunchScan(w)
      holes_sum == CountHoles(w)
      diffs == [i \in 0 .. (w.width - 2) |-> Abs(acc.heights[i] - acc.heights[i + 1])]
  IN  [agg_height |-> SumTo(acc.heights, w.width),
       max_height |-> MaxTo(acc.heights, w.width),
       completed_lines |-> acc.lines,
       holes |-> holes_sum,
       caves |-> SumTo(acc.holes, w.width) - holes_sum,
       bumpiness |-> SumTo(diffs, w.width - 1),
       stacks |-> SumTo(acc.stacks, w.width)]

\* Weights::eval looking at the top line only
EvalTopLineOnly(weights, w) ==
  LET lines == Lines(w)
      height == w.height
  IN  IF lines[height - 1] # {} THEN NEG_INFINITY
      ELSE LET c == Crunch(w)
           IN  Finite(weights.agg_height_f * c.agg_height
                      + weights.max_height_f * c.max_height
                      + weights.complete_lines_f * c.completed_lines
                      + weights.holes_f * c.holes
                      + weights.caves_f * c.caves
                      + weights.bumpiness_f * c.bumpiness
                      + weights.stacking_f * c.stacks)

\* Weights::eval
Eval(weights, w) ==
  LET lines == Lines(w)
      height == w.height
  IN  IF lines[height - 1] # {} \/ lines[height - 2] # {} THEN NEG_INFINITY
      ELSE LET c == Crunch(w)
           IN  Finite(weights.agg_height_f * c.agg_height
                      + weights.max_height_f * c.max_height
                      + weights.complete_lines_f * c.completed_lines
                      + weights.holes_f * c.holes
                      + weights.caves_f * c.caves
                      + weights.bumpiness_f * c.bumpiness
                      + weights.stacking_f * c.stacks)

\* Weights: the default weights scaled by 10^6, and weights that only count
\* completed lines and holes
WeightsOf(a, m, l, h, c, b, s) ==
  [agg_height_f |-> a, max_height_f |-> m, complete_lines_f |-> l, holes_f |-> h,
   caves_f |-> c, bumpiness_f |-> b, stacking_f |-> s]
DefaultWeights == WeightsOf(-510066, -510066, 760666, -356630, 0, -184483, -500000)
WeightSet == { DefaultWeights, WeightsOf(-1, 0, 3, -2, -1, -1, 0) }

(***************************************************************************)
(* Evaluation on its own: one call of eval or crunch on a well built by    *)
(* Well::from_data.                                                        *)
(***************************************************************************)
\* the well of the unit test of crunch
CrunchFixture ==
  FromData(10, << \b0000000000, \b0000110000, \b0111111001, \b0110111111,
                  \b1111111111, \b1110111111, \b1111111111 >>)

\* lines of wide wells
WideLines == { \b0000000000, \b1111111111, \b1110111111, \b0110111001,
               \b0000110000, \b1000000011 }

EvalWells ==
  { FromData(4, << a, b, c, d >>) :
      a \in {\b0000, \b0010, \b1111}, b \in {\b0000, \b0101},
      c \in 0 .. 15, d \in 0 .. 15 }
    \cup { FromData(10, << \b0000000000, a, b, c, d >>) :
             a \in {\b0000000000, \b0000110000}, b \in WideLines,
             c \in WideLines, d \in WideLines }
    \cup { CrunchFixture,
           FromData(12, << \b000000000000, \b000000000000, \b000011000000,
                           \b111111111111, \b101101011011, \b110111101110 >>) }

InitEval ==
  /\ well \in EvalWells
  /\ player = None
  /\ pc = "idle"
  /\ cl = NoClear
  /\ last = Call("from_data", << >>, TRUE)
  /\ pre = Entry(well, player)
  /\ nops = 0
  /\ bot = NoBot

CallEval ==
  /\ last.op = "from_data"
  /\ \E weights \in WeightSet :
       WellCall("eval", << weights >>, Eval(weights, well), well)

CallCrunch ==
  /\ last.op = "from_data"
  /\ WellCall("crunch", << >>, Crunch(well), well)

NextEval ==
  \/ CallEval
  \/ CallCrunch

SpecEval == InitEval /\ [][NextEval]_vars

(***************************************************************************)
(* C18.  Weights::eval returns negative infinity if and only if row        *)
(* height-1 or row height-2 of the evaluated well is non-empty (the        *)
(* condition State::is_game_over reports); with finite weights every such  *)
(* board scores strictly below every board whose top two rows are empty,   *)
(* whose score is finite.                                                  *)
(***************************************************************************)
C18_EvalInfiniteIffGameOver ==
  last.op = "eval" =>
    /\ (last.ret = NEG_INFINITY) <=> TopTwoOccupied(well)
    /\ (last.ret = NEG_INFINITY) <=> IsGameOver(well)
    /\ ~TopTwoOccupied(well) => (last.ret.inf = 0 /\ ScoreLt(NEG_INFINITY, last.ret))
    /\ well = pre.well

\* eval returned negative infinity for a board whose row height-1 is empty
C18_Witness ==
  /\ last.op = "eval"
  /\ last.ret = NEG_INFINITY
  /\ \A col \in 0 .. (well.width - 1) : ~Occupied(well, col, well.height - 1)

(***************************************************************************)
(* Cell-level reading of the board left by clearing the full rows.         *)
(***************************************************************************)
\* the well with every full row removed and the rows above fallen
PostClear(w) ==
  LET kept == KeptFrom(w, 0)
  IN  [w EXCEPT !.field = [i \in Rows |-> IF i < Len(kept) THEN kept[i + 1] ELSE {}]]

\* the number of rows up to the highest block of the column
ColumnHeight(w, col) ==
  LET rows == { row \in 0 .. (w.height - 1) : Occupied(w, col, row) }
  IN  IF rows = {} THEN 0 ELSE 1 + CHOOSE r \in rows : \A q \in rows : q <= r

\* the blocks that have an empty cell somewhere below them in their column
Stacked(w) ==
  { cell \in Blocks(w) :
      cell[1] < w.width /\ \E row \in 0 .. (cell[2] - 1) : ~Occupied(w, cell[1], row) }

\* the features of a board, read cell by cell
Features(w) ==
  LET h == [col \in 0 .. (w.width - 1) |-> ColumnHeight(w, col)]
  IN  [agg_height |-> SumTo(h, w.width),
       max_height |-> MaxTo(h, w.width),
       holes |-> CountHoles(w),
       bumpiness |-> SumTo([i \in 0 .. (w.width - 2) |-> Abs(h[i] - h[i + 1])],
                           w.width - 1),
       stacks |-> Cardinality(Stacked(w))]

(***************************************************************************)
(* C19.  The features returned by crunch describe the post-clear board:    *)
(* completed lines is the number of rows equal to line_mask, and aggregate *)
(* height, max height, holes, bumpiness and stacking are the values of the *)
(* well obtained by removing every full row and letting the rows above     *)
(* fall (28, 4, 2 lines, 2 holes, 6, 1 on the 10-wide fixture).            *)
(***************************************************************************)
C19_CrunchDescribesClearedBoard ==
  last.op = "crunch" =>
    LET want == Features(PostClear(well))
        got == last.ret
    IN  /\ got.completed_lines = Cardinality(FullRows(well))
        /\ got.agg_height = want.agg_height
        /\ got.max_height = want.max_height
        /\ got.holes = want.holes
        /\ got.bumpiness = want.bumpiness
        /\ got.stacks = want.stacks

(***************************************************************************)
(* C20.  The caves feature computed by Weights::crunch equals the number   *)
(* of holes found by the incremental column scan minus the number of holes *)
(* found by the flood-fill method (Well::count_holes).                     *)
(***************************************************************************)
ScanHoles(w) == SumTo(CrunchScan(w).holes, w.width)

C20_CavesIsScanMinusFlood ==
  last.op = "crunch" =>
    last.ret.caves = ScanHoles(well) - CountHoles(well)

\* C20 as first stated: caves is the flood-fill count minus the scan count
C20_CavesIsFloodMinusScan ==
  last.op = "crunch" =>
    last.ret.caves = CountHoles(well) - ScanHoles(well)

\* crunch on a board where both counts are positive and differ
C20_Witness ==
  /\ last.op = "crunch"
  /\ ScanHoles(well) > 0
  /\ CountHoles(well) > 0
  /\ last.ret.caves # 0

(***************************************************************************)
(* The bot: PlayI::play, the depth-first search over the reachable states. *)
(* One step of the model is one iteration of the `while let` loop.         *)
(***************************************************************************)
STRIDE == (MAX_WIDTH + 3) * 4
SIZE == STRIDE * (MAX_HEIGHT + 4)

\* the index computed by the closure `visit` (an i32, before `as usize`)
VisitIndex(p) == p.pt.y * STRIDE + (p.pt.x + 3) * 4 + p.rot

\* visited[i] does not panic
InVisited(i) == 0 <= i /\ i < SIZE

Node(play, p) == [play |-> play, player |-> p]

\* path.last_mut().unwrap().0 = play
SetTop(path, play) == [path EXCEPT ![Len(path)].play = play]

\* path.iter().map(|&(play, _)| play)
PlaysOf(path) == [i \in 1 .. Len(path) |-> path[i].play]

\* PlayI::play updating best whenever the score is at least the best so far
PlayIdleKeepsAny(w, b, p) ==
  LET path == SetTop(b.path, "SoftDrop")
      next == PlayerMoveDown(p)
      i == VisitIndex(next)
  IN  IF i \in b.visited THEN [b EXCEPT !.path = path]
      ELSE IF ~TestPlayer(w, next)
      THEN [b EXCEPT !.path = Append(path, Node("Idle", next)),
                     !.visited = @ \cup {i},
                     !.pushed = @ + 1]
      ELSE LET score == Eval(b.weights, EtchPlayer(w, p))
           IN  [b EXCEPT !.path = path,
                         !.visited = @ \cup {i},
                         !.best = IF ~ScoreLt(score, b.best.score)
                                  THEN [score |-> score, play |-> PlaysOf(path),
                                        player |-> Some(p)]
                                  ELSE @]

\* Play::Idle arm: the soft drop, or the evaluation of a resting player
PlayIdle(w, b, p) ==
  LET path == SetTop(b.path, "SoftDrop")
      next == PlayerMoveDown(p)
      i == VisitIndex(next)
  IN  IF i \in b.visited THEN [b EXCEPT !.path = path]
      ELSE IF ~TestPlayer(w, next)
      THEN [b EXCEPT !.path = Append(path, Node("Idle", next)),
                     !.visited = @ \cup {i},
                     !.pushed = @ + 1]
      ELSE LET score == Eval(b.weights, EtchPlayer(w, p))
           IN  [b EXCEPT !.path = path,
                         !.visited = @ \cup {i},
                         !.best = IF ScoreGt(score, b.best.score)
                                  THEN [score |-> score, play |-> PlaysOf(path),
                                        player |-> Some(p)]
                                  ELSE @]

\* Play::SoftDrop and Play::MoveLeft arms: a sideways step
PlaySide(w, b, play, next) ==
  LET path == SetTop(b.path, play)
      i == VisitIndex(next)
  IN  IF i \notin b.visited /\ ~TestPlayer(w, next)
      THEN [b EXCEPT !.path = Append(path, Node("Idle", next)),
                     !.visited = @ \cup {i},
                     !.pushed = @ + 1]
      ELSE [b EXCEPT !.path = path, !.visited = @ \cup {i}]

\* a rotation arm whose `visit` does not set the visited entry
PlayTurnUnmarked(w, b, play, next) ==
  LET path == SetTop(b.path, play)
      i == VisitIndex(next)
  IN  IF i \notin b.visited
      THEN [b EXCEPT !.path = Append(path, Node("Idle", next)),
                     !.pushed = @ + 1]
      ELSE [b EXCEPT !.path = path]

\* Play::MoveRight and Play::RotateCW arms: a rotation by srs_cw / srs_ccw
PlayTurn(w, b, play, next) ==
  LET path == SetTop(b.path, play)
      i == VisitIndex(next)
  IN  IF i \notin b.visited
      THEN [b EXCEPT !.path = Append(path, Node("Idle", next)),
                     !.visited = @ \cup {i},
                     !.pushed = @ + 1]
      ELSE [b EXCEPT !.path = path]

\* the player `visit` is called with in this iteration (none when popping)
PlayNext(w, top) ==
  CASE top.play = "Idle" -> PlayerMoveDown(top.player)
    [] top.play = "SoftDrop" -> PlayerMoveLeft(top.player)
    [] top.play = "MoveLeft" -> PlayerMoveRight(top.player)
    [] top.play = "MoveRight" -> srs_cw(w, top.player)
    [] top.play = "RotateCW" -> srs_ccw(w, top.player)
    [] OTHER -> top.player

\* the body of the loop
PlayLoop(w, b) ==
  LET top == b.path[Len(b.path)]
      p == top.player
  IN  CASE top.play = "Idle" -> PlayIdle(w, b, p)
        [] top.play = "SoftDrop" -> PlaySide(w, b, "MoveLeft", PlayerMoveLeft(p))
        [] top.play = "MoveLeft" -> PlaySide(w, b, "MoveRight", PlayerMoveRight(p))
        [] top.play = "MoveRight" -> PlayTurn(w, b, "RotateCW", srs_cw(w, p))
        [] top.play = "RotateCW" -> PlayTurn(w, b, "RotateCCW", srs_ccw(w, p))
        [] top.play = "RotateCCW" -> [b EXCEPT !.path = SubSeq(@, 1, Len(@) - 1)]

\* the wells the search is run on
PlayWells ==
  { FromData(4, << \b0000, \b0000, \b0000, \b0000, \b1000 >>),
    FromData(5, << \b00000, \b00000, \b00000, \b00000, \b11000, \b11001 >>),
    FromData(5, << \b00000, \b00000, \b00000, \b11000, \b10000, \b10001 >>),
    FromData(5, << \b00000, \b00100, \b00000, \b00000, \b10011 >>),
    FromData(4, << \b0000, \b0000, \b0000, \b1001, \b1101 >>),
    FromData(4, << \b0000, \b0000, \b0000, \b1001, \b1000, \b0100 >>),
    FromData(4, << \b0000, \b0000, \b0000, \b1011, \b0001, \b0000 >>),
    FromData(10, << \b0000000000, \b0000000000, \b0000000000, \b0000000000,
                    \b1100110000, \b1100111111 >>) }

\* the position State::spawn gives the piece
SpawnPoint(w, piece) ==
  Point((w.width \div 2) - 2, w.height - (IF piece # "O" /\ piece # "I" THEN 1 ELSE 0))

\* the starting players: the spawned player, the player of the unit test
\* (one column to the right), and players placed lower in the well
PlayStarts(w, piece) ==
  LET pt == SpawnPoint(w, piece)
  IN  { PlayerNew(piece, 0, pt), PlayerNew(piece, 0, Point(pt.x + 1, pt.y)),
        PlayerNew(piece, 0, Point(pt.x, 2)), PlayerNew(piece, 1, Point(pt.x - 1, 3)),
        PlayerNew(piece, 0, Point(pt.x - 1, 1)), PlayerNew(piece, 0, Point(pt.x, 0)) }

InitPlay ==
  /\ well \in PlayWells
  /\ player = None
  /\ pc = "idle"
  /\ cl = NoClear
  /\ last = Call("from_data", << >>, TRUE)
  /\ pre = Entry(well, player)
  /\ nops = 0
  /\ bot = NoBot

\* PlayI::play, entry: the starting player is pushed, best is empty
PlayBegin ==
  /\ pc = "idle"
  /\ \E weights \in WeightSet, piece \in PieceSet :
       \E start \in PlayStarts(well, piece) :
         /\ bot' = [weights |-> weights, start |-> start,
                    path |-> << Node("Idle", start) >>, visited |-> {},
                    best |-> [score |-> NEG_INFINITY, play |-> << >>, player |-> None],
                    pushed |-> 1]
         /\ last' = Call("play", << weights, start >>, TRUE)
  /\ pc' = "playing"
  /\ pre' = Entry(well, player)
  /\ UNCHANGED << well, player, cl, nops >>

\* one iteration of the loop
PlayStep ==
  /\ pc = "playing"
  /\ bot.path # << >>
  /\ LET top == bot.path[Len(bot.path)]
     IN  \/ top.play = "RotateCCW"
         \/ InVisited(VisitIndex(PlayNext(well, top)))
  /\ bot' = PlayLoop(well, bot)
  /\ UNCHANGED << well, player, pc, cl, last, pre, nops >>

\* the index of `visit` lies outside the visited array: the call panics
PlayPanic ==
  /\ pc = "playing"
  /\ bot.path # << >>
  /\ LET top == bot.path[Len(bot.path)]
     IN  /\ top.play # "RotateCCW"
         /\ ~InVisited(VisitIndex(PlayNext(well, top)))
  /\ pc' = "panicked"
  /\ UNCHANGED << well, player, cl, last, pre, nops, bot >>

\* the path is empty: the loop ends and best is returned
PlayEnd ==
  /\ pc = "playing"
  /\ bot.path = << >>
  /\ pc' = "played"
  /\ UNCHANGED << well, player, cl, last, pre, nops, bot >>

NextPlay ==
  \/ PlayBegin
  \/ PlayStep
  \/ PlayPanic
  \/ PlayEnd

SpecPlay == InitPlay /\ [][NextPlay]_vars

(***************************************************************************)
(* Readings of a search: the states the piece can reach and rest in.       *)
(***************************************************************************)
\* the legal states one soft-drop-one, move-left, move-right or SRS
\* rotation step away from p
Neighbours(w, p) ==
  { q \in { Moved(p, 0, -1), Moved(p, -1, 0), Moved(p, 1, 0) } : ~IllegalPlayer(w, q) }
    \cup { Turned(w, p, TRUE).player, Turned(w, p, FALSE).player }

RECURSIVE ReachFrom(_, _, _)
ReachFrom(w, seen, frontier) ==
  IF frontier = {} THEN seen
  ELSE LET new == (UNION { Neighbours(w, p) : p \in frontier }) \ seen
       IN  ReachFrom(w, seen \cup new, new)

\* the states reachable from the starting player
Reach(w, start) == ReachFrom(w, {start}, {start})

\* the reachable states whose one-row-down neighbour is illegal
Resting(w, start) == { p \in Reach(w, start) : IllegalPlayer(w, Moved(p, 0, -1)) }

\* eval of the well with the piece etched
Placed(weights, w, p) == Eval(weights, Etch(w, piece_sprite(p.piece, p.rot), p.pt))

\* the highest of a set of scores (negative infinity for the empty set)
BestOf(scores) ==
  IF scores = {} THEN NEG_INFINITY
  ELSE CHOOSE s \in scores : \A t \in scores : ~ScoreGt(t, s)

\* the search has returned
Played == pc = "played"

(***************************************************************************)
(* C11.  PlayI::play(weights, well, player) returns a score equal to the   *)
(* maximum of eval(well with the piece etched) over all resting states     *)
(* reachable from the starting player by legal soft-drop-one, move-left,   *)
(* move-right and SRS rotation steps, and the returned player is a resting *)
(* state attaining it: every reachable resting state is evaluated.         *)
(***************************************************************************)
C11_PlayFindsBestResting ==
  (Played /\ ~IllegalPlayer(well, bot.start)) =>
    LET rest == Resting(well, bot.start)
        top == BestOf({ Placed(bot.weights, well, p) : p \in rest })
    IN  /\ bot.best.score = top
        /\ top # NEG_INFINITY =>
             /\ bot.best.player # None
             /\ bot.best.player[1] \in rest
             /\ Placed(bot.weights, well, bot.best.player[1]) = top

\* one action of the list applied to a player: where it leads and whether
\* it succeeded
Applied(w, play, p) ==
  LET step(q) == IF IllegalPlayer(w, q) THEN [ok |-> FALSE, player |-> p]
                 ELSE [ok |-> TRUE, player |-> q]
  IN  CASE play = "SoftDrop" -> step(Moved(p, 0, -1))
        [] play = "MoveLeft" -> step(Moved(p, -1, 0))
        [] play = "MoveRight" -> step(Moved(p, 1, 0))
        [] play = "RotateCW" -> Turned(w, p, TRUE)
        [] play = "RotateCCW" -> Turned(w, p, FALSE)
        [] OTHER -> [ok |-> FALSE, player |-> p]

\* the actions but the last applied in order: the position before the last
\* action, and whether every position was legal and every action succeeded
RECURSIVE Replay(_, _, _)
Replay(w, plays, p) ==
  IF IllegalPlayer(w, p) THEN [ok |-> FALSE, player |-> p]
  ELSE IF Len(plays) <= 1 THEN [ok |-> TRUE, player |-> p]
  ELSE LET a == Applied(w, Head(plays), p)
       IN  IF a.ok THEN Replay(w, Tail(plays), a.player)
           ELSE [ok |-> FALSE, player |-> a.player]

\* the State command a driver issues for an action
StateCommand(w, play, p) ==
  CASE play = "SoftDrop" -> StateSoftDrop(w, p)
    [] play = "MoveLeft" -> StateMoveLeft(w, p)
    [] play = "MoveRight" -> StateMoveRight(w, p)
    [] play = "RotateCW" -> StateRotateCw(w, p)
    [] play = "RotateCCW" -> StateRotateCcw(w, p)
    [] OTHER -> Result(w, p, FALSE)

\* the list replayed through the State commands, one action per tick
RECURSIVE StateReplay(_, _, _)
StateReplay(w, plays, p) ==
  IF plays = << >> THEN Result(w, p, TRUE)
  ELSE LET r == StateCommand(w, Head(plays), p)
       IN  StateReplay(r.well, Tail(plays), r.player)

\* the search has returned a non-empty action list
ReturnedPlays == Played /\ bot.best.play # << >>

(***************************************************************************)
(* C12.  When PlayI::play returns a non-empty action list, the list holds  *)
(* only SoftDrop, MoveLeft, MoveRight, RotateCW and RotateCCW; applied in  *)
(* order to the starting player against the unchanged well it moves        *)
(* through legal positions only, every action but the last succeeds, the   *)
(* position before the last action is the returned resting player and the  *)
(* last action is a SoftDrop that cannot move down: replayed through the   *)
(* State commands the list locks the piece exactly at the returned player. *)
(* Stated for legal starting players (an illegal one is the case of C14).  *)
(***************************************************************************)
C12_PlaysReplayToReturnedPlayer ==
  (ReturnedPlays /\ ~IllegalPlayer(well, bot.start)) =>
    LET plays == bot.best.play
        r == Replay(well, plays, bot.start)
        s == StateReplay(well, plays, Some(bot.start))
    IN  /\ \A i \in 1 .. Len(plays) :
             plays[i] \in {"SoftDrop", "MoveLeft", "MoveRight", "RotateCW", "RotateCCW"}
        /\ r.ok
        /\ bot.best.player = Some(r.player)
        /\ plays[Len(plays)] = "SoftDrop"
        /\ IllegalPlayer(well, Moved(r.player, 0, -1))
        /\ s.player = None
        /\ s.well = Etch(well, piece_sprite(r.player.piece, r.player.rot), r.player.pt)

\* the search has returned a player
ReturnedPlayer == Played /\ bot.best.player # None

(***************************************************************************)
(* C13.  PlayI::play never returns Some(player) whose post-etch board      *)
(* evaluates to negative infinity: for every well and starting player, a   *)
(* returned placement leaves rows height-1 and height-2 of the etched well *)
(* empty.                                                                  *)
(***************************************************************************)
C13_ReturnedPlacementIsNotGameOver ==
  ReturnedPlayer =>
    LET p == bot.best.player[1]
        etched == Etch(well, piece_sprite(p.piece, p.rot), p.pt)
    IN  /\ Eval(bot.weights, etched) # NEG_INFINITY
        /\ bot.best.score # NEG_INFINITY
        /\ ~TopTwoOccupied(etched)

\* a search returned a player although one of the resting states it
\* evaluated fills a cell of the two top rows
C13_Witness ==
  /\ ReturnedPlayer
  /\ \E p \in Resting(well, bot.start) :
       TopTwoOccupied(Etch(well, piece_sprite(p.piece, p.rot), p.pt))

(***************************************************************************)
(* C14.  If the starting player passed to PlayI::play is at an illegal     *)
(* position (Well::test is true for it), the search returns an empty       *)
(* action list and player None.                                            *)
(***************************************************************************)
C14_IllegalStartFindsNothing ==
  (Played /\ IllegalPlayer(well, bot.start)) =>
    /\ bot.best.play = << >>
    /\ bot.best.player = None

\* the wells the search is run to its end on
FairWells ==
  { FromData(4, << \b0000, \b0010, \b0000, \b0000, \b1001 >>) }

InitPlayFair ==
  /\ well \in FairWells
  /\ player = None
  /\ pc = "idle"
  /\ cl = NoClear
  /\ last = Call("from_data", << >>, TRUE)
  /\ pre = Entry(well, player)
  /\ nops = 0
  /\ bot = NoBot

\* the search as a running program: a step that can be taken is taken
SpecPlayFair == InitPlayFair /\ [][NextPlay]_vars /\ WF_vars(NextPlay)

\* every node pushed after the first one has set an entry of the visited
\* array that was clear
PushesBounded ==
  /\ bot.visited \subseteq 0 .. (SIZE - 1)
  /\ bot.pushed <= Cardinality(bot.visited) + 1
  /\ bot.pushed <= SIZE + 1

(***************************************************************************)
(* C15.  PlayI::play terminates for every well and every starting player:  *)
(* the number of nodes pushed on the search path is bounded by the number  *)
(* of (y, x, rotation) entries of the visited array, and the path is empty *)
(* when the loop ends.  (The search stops either by returning or, for a    *)
(* starting player at y = 0, by the out-of-bounds panic of `visit`.)       *)
(***************************************************************************)
C15_PlayTerminates ==
  /\ [](pc \in {"playing", "played", "panicked"} => PushesBounded)
  /\ [](Played => bot.path = << >>)
  /\ (pc = "playing") ~> (Played \/ pc = "panicked")

\* a search that pushed more than twenty nodes has ended with an empty path
C15_Witness ==
  /\ Played
  /\ bot.path = << >>
  /\ bot.pushed > 20
  /\ bot.pushed <= Cardinality(bot.visited) + 1

(***************************************************************************)
(* The earlier engine (src/core, src/src): lines are right-aligned, column *)
(* x is bit x, row 0 is the first line of from_data.                       *)
(***************************************************************************)
LEGACY_MAX_HEIGHT == 22
LEGACY_MAX_WIDTH == 16
LegacyRows == 0 .. (LEGACY_MAX_HEIGHT - 1)
LegacyCols == 0 .. (LEGACY_MAX_WIDTH - 1)

\* `line >> n` on u16
Shr(line, n) == { b - n : b \in { c \in line : c >= n } }

\* the meshes of Piece::mesh; b! reads X___ as 0b0001
LEGACY_DATA ==
  << \* The O piece
     DataMacro(<< << \b0000, \b0000, \b0000, \b0000 >>,
                  << \b0110, \b0110, \b0110, \b0110 >>,
                  << \b0110, \b0110, \b0110, \b0110 >>,
                  << \b0000, \b0000, \b0000, \b0000 >> >>),
     \* The I piece
     DataMacro(<< << \b0000, \b0100, \b0000, \b0010 >>,
                  << \b1111, \b0100, \b0000, \b0010 >>,
                  << \b0000, \b0100, \b1111, \b0010 >>,
                  << \b0000, \b0100, \b0000, \b0010 >> >>),
     \* The S piece
     DataMacro(<< << \b1100, \b0100, \b0000, \b0010 >>,
                  << \b0110, \b1100, \b1100, \b0110 >>,
                  << \b0000, \b1000, \b0110, \b0100 >>,
                  << \b0000, \b0000, \b0000, \b0000 >> >>),
     \* The Z piece
     DataMacro(<< << \b0110, \b1000, \b0000, \b0100 >>,
                  << \b1100, \b1100, \b0110, \b0110 >>,
                  << \b0000, \b0100, \b1100, \b0010 >>,
                  << \b0000, \b0000, \b0000, \b0000 >> >>),
     \* The L piece
     DataMacro(<< << \b1000, \b0100, \b0000, \b0110 >>,
                  << \b1110, \b0100, \b1110, \b0100 >>,
                  << \b0000, \b1100, \b0010, \b0100 >>,
                  << \b0000, \b0000, \b0000, \b0000 >> >>),
     \* The J piece
     DataMacro(<< << \b0010, \b1100, \b0000, \b0100 >>,
                  << \b1110, \b0100, \b1110, \b0100 >>,
                  << \b0000, \b0100, \b1000, \b0110 >>,
                  << \b0000, \b0000, \b0000, \b0000 >> >>),
     \* The T piece
     DataMacro(<< << \b0100, \b0100, \b0000, \b0100 >>,
                  << \b1110, \b1100, \b1110, \b0110 >>,
                  << \b0000, \b0100, \b0100, \b0100 >>,
                  << \b0000, \b0000, \b0000, \b0000 >> >>) >>

\* Piece::mesh().data[rot]
LegacyMesh(piece, rot) == LEGACY_DATA[PieceIndex(piece) + 1][rot]

\* Well::from_data of the earlier engine: lines[row] is row `row`
LegacyFromData(width, lines) ==
  [width |-> width, height |-> Len(lines),
   field |-> [i \in LegacyRows |-> IF i < Len(lines) THEN Bits(lines[i + 1]) ELSE {}]]

\* Well::line_mask: (1 << width) - 1
LegacyLineMask(w) == { b \in BitPos : b < w.width }

\* the mesh row rendered for the column x
LegacyCgLine(row, x) == IF x < 0 THEN Shr(row, -x) ELSE Shl(row, x)

\* Well::test of the earlier engine
LegacyTest(w, p) ==
  IF p.pt.x < 0 - 4 \/ p.pt.x >= w.width \/ p.pt.y < 0 THEN TRUE
  ELSE IF p.pt.y >= w.height + 4 THEN FALSE
  ELSE
    LET mesh == LegacyMesh(p.piece, p.rot)
        line_mask == IF p.pt.x < 0 THEN Shl(LegacyLineMask(w), -p.pt.x)
                     ELSE Shr(LegacyLineMask(w), p.pt.x)
    IN  \E y \in 0 .. 3 :
          \/ (mesh[y] \ line_mask) # {}
          \/ LET row == p.pt.y - y
             IN  IF row < 0 THEN mesh[y] # {}
                 ELSE IF row < w.height
                      THEN (LegacyCgLine(mesh[y], p.pt.x) \cap w.field[row]) # {}
                      ELSE FALSE

\* Well::etch of the earlier engine
LegacyEtch(w, p) ==
  LET mesh == LegacyMesh(p.piece, p.rot)
  IN  [w EXCEPT !.field =
         [i \in LegacyRows |->
            IF p.pt.y - i \in 0 .. 3 /\ i < w.height
            THEN w.field[i] \cup LegacyCgLine(mesh[p.pt.y - i], p.pt.x)
            ELSE w.field[i]]]

\* PlayW::crunch / PlayerBot::crunch: one iteration of the loop over the lines
LegacyCrunchLine(w, acc, line) ==
  IF line = LegacyLineMask(w) THEN [acc EXCEPT !.lines = @ + 1]
  ELSE LET height == acc.height + 1
           hit(col) == col < w.width /\ col \in line
           holes == [col \in LegacyCols |->
                       IF hit(col) THEN acc.holes[col] + height - acc.heights[col] - 1
                       ELSE acc.holes[col]]
       IN  [acc EXCEPT !.height = height,
                       !.holes = holes,
                       !.heights = [col \in LegacyCols |->
                                      IF hit(col) THEN height ELSE acc.heights[col]],
                       !.stacks = [col \in LegacyCols |->
                                     IF hit(col) /\ holes[col] # 0
                                     THEN acc.stacks[col] + 1 ELSE acc.stacks[col]]]

RECURSIVE LegacyCrunchLines(_, _, _)
LegacyCrunchLines(w, acc, row) ==
  IF row >= w.height THEN acc
  ELSE LegacyCrunchLines(w, LegacyCrunchLine(w, acc, w.field[row]), row + 1)

\* PlayW::crunch / PlayerBot::crunch
LegacyCrunch(w) ==
  LET zero == [col \in LegacyCols |-> 0]
      acc == LegacyCrunchLines(w, [heights |-> zero, holes |-> zero, stacks |-> zero,
                                   lines |-> 0, height |-> 0], 0)
      diffs == [i \in 0 .. (w.width - 2) |-> Abs(acc.heights[i] - acc.heights[i + 1])]
  IN  [height_sum |-> SumTo(acc.heights, w.width),
       lines |-> acc.lines,
       holes_sum |-> SumTo(acc.holes, w.width),
       bumpiness |-> SumTo(diffs, w.width - 1),
       stacks_sum |-> SumTo(acc.stacks, w.width)]

\* PlayW::eval / PlayerBot::eval
LegacyEval(weights, w) ==
  LET c == LegacyCrunch(w)
  IN  Finite(weights.agg_height_f * c.height_sum
             + weights.complete_lines_f * c.lines
             + weights.holes_f * c.holes_sum
             + weights.bumpiness_f * c.bumpiness
             + weights.stacking_f * c.stacks_sum)

\* PlayW and PlayerBot: the weights, scaled by 10^6
LegacyWeightsOf(a, l, h, b, s, t) ==
  [agg_height_f |-> a, complete_lines_f |-> l, holes_f |-> h, bumpiness_f |-> b,
   stacking_f |-> s, walltouch |-> t]

\* PlayW::new / PlayerBot::new
LegacyDefaultWeights == LegacyWeightsOf(-510066, 760666, -356630, -184483, -500000, 0)

\* the rotations the loop `for rot in 0..3` goes through
LegacyRotRange == 0 .. 2

\* the loop `while !well.test(&player) { player.pt.y -= 1 }`, then `+= 1`
RECURSIVE LegacyDrop(_, _)
LegacyDrop(w, p) ==
  IF ~LegacyTest(w, p) THEN LegacyDrop(w, PlayerMoveDown(p))
  ELSE PlayerNew(p.piece, p.rot, Point(p.pt.x, p.pt.y + 1))

\* the body of the two loops for one candidate (rot, x); touch is TRUE for
\* PlayerBot::ask, which adds the walltouch weight
LegacyCandidate(weights, w, piece, best, rot, x, touch) ==
  LET p == PlayerNew(piece, rot, Point(x, w.height))
  IN  IF LegacyTest(w, p) THEN best
      ELSE LET walltouch == \/ LegacyTest(w, PlayerNew(piece, rot, Point(x - 1, w.height)))
                            \/ LegacyTest(w, PlayerNew(piece, rot, Point(x + 1, w.height)))
               eval == LegacyEval(weights, LegacyEtch(w, LegacyDrop(w, p)))
               score == IF touch /\ walltouch THEN Finite(eval.v + weights.walltouch)
                        ELSE eval
           IN  IF ScoreGt(score, best.score) THEN [x |-> x, rot |-> rot, score |-> score]
               ELSE best

\* the inner loop `for x in -3..well.width()`
RECURSIVE LegacyScanX(_, _, _, _, _, _, _)
LegacyScanX(weights, w, piece, best, rot, x, touch) ==
  IF x >= w.width THEN best
  ELSE LegacyScanX(weights, w, piece,
                   LegacyCandidate(weights, w, piece, best, rot, x, touch), rot, x + 1, touch)

\* the outer loop over the rotations, in ascending order
RECURSIVE LegacyScanRot(_, _, _, _, _, _)
LegacyScanRot(weights, w, piece, best, rot, touch) ==
  IF rot \notin LegacyRotRange THEN best
  ELSE LegacyScanRot(weights, w, piece,
                     LegacyScanX(weights, w, piece, best, rot, -3, touch), rot + 1, touch)

\* PlayI::best of the earlier engine
LegacyBest(weights, w, piece) ==
  LegacyScanRot(weights, w, piece, [x |-> 0, rot |-> 0, score |-> NEG_INFINITY], 0, FALSE)

\* PlayerBot::ask
LegacyAsk(weights, w, piece) ==
  LET best == LegacyScanRot(weights, w, piece,
                            [x |-> 0, rot |-> 0, score |-> NEG_INFINITY], 0, TRUE)
  IN  << best.x, best.rot >>

\* the order in which the worst-piece searches go through the pieces
WorstOrder == << "S", "Z", "O", "I", "L", "J", "T" >>

\* PlayI::worst: the fold over the pieces
RECURSIVE LegacyWorstFold(_, _, _, _)
LegacyWorstFold(weights, w, bad, i) ==
  IF i > Len(WorstOrder) THEN bad
  ELSE LET score == LegacyBest(weights, w, WorstOrder[i]).score
       IN  LegacyWorstFold(weights, w,
                           IF ScoreLt(score, bad.score)
                           THEN [piece |-> WorstOrder[i], score |-> score] ELSE bad,
                           i + 1)

\* PlayI::worst
LegacyWorst(weights, w) ==
  LegacyWorstFold(weights, w, [piece |-> "S", score |-> INFINITY], 1).piece

(***************************************************************************)
(* The grid search on its own: one call of best, ask or worst on a well    *)
(* of the earlier engine.                                                  *)
(***************************************************************************)
\* weights: those of PlayW::new, and weights that reward height
LegacyWeightSet ==
  { LegacyDefaultWeights, LegacyWeightsOf(1, 3, -2, -1, 0, 2) }

\* the wells the grid search is run on (first line is row 0)
GridWells ==
  { LegacyFromData(4, << \b0000, \b0000, \b0000, \b0000 >>),
    LegacyFromData(4, << \b0111, \b0011, \b0000, \b0000 >>),
    LegacyFromData(4, << \b1110, \b1100, \b0000, \b0000 >>),
    LegacyFromData(4, << \b1011, \b1001, \b0000, \b0000, \b0000 >>),
    LegacyFromData(5, << \b11011, \b10001, \b00000, \b00000 >>),
    LegacyFromData(5, << \b01111, \b01111, \b00111, \b00000, \b00000 >>),
    LegacyFromData(5, << \b11110, \b11110, \b11100, \b00000, \b00000 >>),
    LegacyFromData(6, << \b110111, \b110011, \b000001, \b000000, \b000000 >>) }

InitGrid ==
  /\ well \in GridWells
  /\ player = None
  /\ pc = "idle"
  /\ cl = NoClear
  /\ last = Call("from_data", << >>, TRUE)
  /\ pre = Entry(well, player)
  /\ nops = 0
  /\ bot = NoBot

\* a call that leaves the state alone and returns ret
GridCall(op, arg, ret) ==
  /\ last' = Call(op, arg, ret)
  /\ pre' = Entry(well, player)
  /\ UNCHANGED << well, player, pc, cl, nops, bot >>

\* PlayI::best(weights, well, piece)
CallBest ==
  \E weights \in LegacyWeightSet, piece \in PieceSet :
    GridCall("best", << weights, piece >>, LegacyBest(weights, well, piece))

\* PlayerBot::ask(well, piece)
CallAsk ==
  \E weights \in LegacyWeightSet, piece \in PieceSet :
    GridCall("ask", << weights, piece >>, LegacyAsk(weights, well, piece))

\* PlayI::worst(weights, well)
CallWorst ==
  \E weights \in LegacyWeightSet :
    GridCall("worst", << weights >>, LegacyWorst(weights, well))

NextGrid ==
  \/ CallBest
  \/ CallAsk
  \/ CallWorst

SpecGrid == InitGrid /\ [][NextGrid]_vars

(***************************************************************************)
(* Readings of a grid search.                                              *)
(***************************************************************************)
\* the board cells << col, row >> covered by the player's mesh
LegacyCells(p) ==
  { << p.pt.x + c, p.pt.y - r >> :
      << r, c >> \in { rc \in (0 .. 3) \X (0 .. 3) : rc[2] \in LegacyMesh(p.piece, p.rot)[rc[1]] } }

\* the player sticks out of the well or overlaps a block
LegacyIllegal(w, p) ==
  \/ p.pt.x < -4
  \/ p.pt.x >= w.width
  \/ p.pt.y < 0
  \/ /\ p.pt.y < w.height + 4
     /\ \E cell \in LegacyCells(p) :
          \/ cell[1] < 0
          \/ cell[1] >= w.width
          \/ cell[2] < 0
          \/ cell[2] < w.height /\ cell[1] \in w.field[cell[2]]

\* the candidates << rot, x >> that are legal at row y = height
GridCandidates(w, piece) ==
  { c \in (0 .. 3) \X (-3 .. (w.width - 1)) :
      ~LegacyIllegal(w, PlayerNew(piece, c[1], Point(c[2], w.height))) }

\* the candidate dropped to its lowest legal row
GridRest(w, piece, c) ==
  LET at(y) == PlayerNew(piece, c[1], Point(c[2], y))
      y == CHOOSE y0 \in 0 .. w.height :
             /\ \A k \in y0 .. w.height : ~LegacyIllegal(w, at(k))
             /\ LegacyIllegal(w, at(y0 - 1))
  IN  at(y)

\* the score of a candidate; ask adds the walltouch weight to a candidate
\* that has a wall or a block next to it at row y = height
GridScore(op, weights, w, piece, c) ==
  LET eval == LegacyEval(weights, LegacyEtch(w, GridRest(w, piece, c)))
      touch == \/ LegacyIllegal(w, PlayerNew(piece, c[1], Point(c[2] - 1, w.height)))
               \/ LegacyIllegal(w, PlayerNew(piece, c[1], Point(c[2] + 1, w.height)))
  IN  IF op = "ask" /\ touch THEN eval.v + weights.walltouch ELSE eval.v

\* c comes before d in scan order: lower rotation index, then lower x
ScanBefore(c, d) == c[1] < d[1] \/ (c[1] = d[1] /\ c[2] <= d[2])

(***************************************************************************)
(* C16.  The exhaustive grid search (PlayI::best / PlayerBot::ask)         *)
(* considers, for the given piece, every one of the four rotation states   *)
(* combined with every x in [-3, width): each candidate legal at row       *)
(* y = height is dropped to its lowest legal row, etched into a copy of    *)
(* the well and evaluated; the result is the (rotation, x) with the        *)
(* highest score, and among equal scores the first in scan order (lower    *)
(* rotation index, then lower x).  The caller's well is not modified.      *)
(***************************************************************************)
C16_GridSearchTakesBestOfFourRotations ==
  last.op \in {"best", "ask"} =>
    LET weights == last.arg[1]
        piece == last.arg[2]
        res == IF last.op = "best" THEN << last.ret.rot, last.ret.x >>
               ELSE << last.ret[2], last.ret[1] >>
        cands == GridCandidates(pre.well, piece)
        score(c) == GridScore(last.op, weights, pre.well, piece, c)
    IN  /\ well = pre.well
        /\ cands # {} =>
             /\ res \in cands
             /\ \A c \in cands :
                  \/ score(c) < score(res)
                  \/ score(c) = score(res) /\ ScanBefore(res, c)

\* the best score the grid search can achieve for a piece: the highest
\* score of its candidates (negative infinity when it has none)
GridBestScore(weights, w, piece) ==
  BestOf({ Finite(GridScore("best", weights, w, piece, c)) : c \in GridCandidates(w, piece) })

\* piece is the first piece in the order S, Z, O, I, L, J, T whose score is
\* minimal
FirstWorst(piece, score) ==
  LET at(q) == CHOOSE i \in 1 .. Len(WorstOrder) : WorstOrder[i] = q
  IN  \A q \in PieceSet :
        \/ ScoreLt(score[piece], score[q])
        \/ score[q] = score[piece] /\ at(piece) <= at(q)

(***************************************************************************)
(* C17.  The worst-piece search (PlayI::worst_piece / PlayI::worst)        *)
(* returns a piece whose best achievable placement score on the given well *)
(* is minimal among the seven pieces; when several pieces share the        *)
(* minimum (including when all of them are negative infinity) it returns   *)
(* the first of them in the order S, Z, O, I, L, J, T.                     *)
(***************************************************************************)
C17_WorstPieceHasLowestBestScore ==
  last.op = "worst" =>
    FirstWorst(last.ret, [q \in PieceSet |-> GridBestScore(last.arg[1], pre.well, q)])

(***************************************************************************)
(* PlayI::worst_piece: the fold over the pieces, and for each piece the    *)
(* recursive flood `rec` of PlayI::piece, one call or return per step.     *)
(***************************************************************************)
\* a call of rec that has not run yet, or that waits for the call `stage`
Frame(p, stage, vals) == [player |-> p, stage |-> stage, vals |-> vals]

\* the player PlayI::piece starts the flood from
PieceStart(w, piece) == PlayerNew(piece, 0, Point((w.width \div 2) - 2, w.height + 3))

\* cw.max(ccw).max(left).max(right).max(player_down)
MaxChain(vals) ==
  ScoreMax(ScoreMax(ScoreMax(ScoreMax(vals[1], vals[2]), vals[3]), vals[4]), vals[5])

\* rec returns v: the frame is popped and v waits for the caller
RecReturn(b, v) ==
  [b EXCEPT !.stack = SubSeq(@, 1, Len(@) - 1), !.ret = Some(v)]

\* rec calls itself on `next`: the caller waits in `stage`
RecCall(b, top, stage, vals, next) ==
  [b EXCEPT !.stack = Append(SubSeq(@, 1, Len(@) - 1), Frame(top.player, stage, vals))
                        \o << Frame(next, "enter", << >>) >>,
            !.ret = None]

\* rec from its entry to its first call: the visited flag and the test
RecEnter(w, b, top) ==
  LET i == VisitIndex(top.player)
  IN  IF i \in b.visited THEN RecReturn(b, NEG_INFINITY)
      ELSE IF TestPlayer(w, top.player)
      THEN RecReturn([b EXCEPT !.visited = @ \cup {i}], NEG_INFINITY)
      ELSE RecCall([b EXCEPT !.visited = @ \cup {i}], top, "cw", << >>,
                   PlayerRotateCw(top.player))

\* rec after one of its calls has returned v
RecResume(w, b, top, v) ==
  LET vals == Append(top.vals, v)
      p == top.player
  IN  CASE top.stage = "cw" -> RecCall(b, top, "ccw", vals, PlayerRotateCcw(p))
        [] top.stage = "ccw" -> RecCall(b, top, "left", vals, PlayerMoveLeft(p))
        [] top.stage = "left" -> RecCall(b, top, "right", vals, PlayerMoveRight(p))
        [] top.stage = "right" ->
             IF TestPlayer(w, PlayerMoveDown(p))
             THEN RecReturn(b, MaxChain(Append(vals, Eval(b.weights, EtchPlayer(w, p)))))
             ELSE RecCall(b, top, "down", vals, PlayerMoveDown(p))
        [] top.stage = "down" -> RecReturn(b, MaxChain(vals))

\* the closure of the fold: the score of piece k has arrived
WorstFold(w, b, score) ==
  LET piece == WorstOrder[b.k]
      bad == IF ScoreLt(score, b.bad.score) THEN [piece |-> piece, score |-> score]
             ELSE b.bad
  IN  [b EXCEPT !.bad = bad,
                !.k = @ + 1,
                !.visited = {},
                !.ret = None,
                !.stack = IF b.k < Len(WorstOrder)
                          THEN << Frame(PieceStart(w, WorstOrder[b.k + 1]), "enter", << >>) >>
                          ELSE << >>]

\* one step of worst_piece
WorstLoop(w, b) ==
  IF b.stack = << >> THEN WorstFold(w, b, b.ret[1])
  ELSE LET top == b.stack[Len(b.stack)]
       IN  IF b.ret = None THEN RecEnter(w, b, top)
           ELSE RecResume(w, b, top, b.ret[1])

\* the wells the worst piece is searched on
WorstWells ==
  { FromData(4, << \b0000, \b0000, \b0000, \b0000, \b0000, \b0000 >>),
    FromData(4, << \b0000, \b0000, \b0000, \b0000, \b1100, \b1110 >>),
    FromData(4, << \b0000, \b0000, \b0010, \b0000, \b1001, \b1011 >>) }

InitWorst ==
  /\ well \in WorstWells
  /\ player = None
  /\ pc = "idle"
  /\ cl = NoClear
  /\ last = Call("from_data", << >>, TRUE)
  /\ pre = Entry(well, player)
  /\ nops = 0
  /\ bot = NoBot

\* PlayI::worst_piece, entry: the fold starts with (pieces[0], INFINITY)
WorstBegin ==
  /\ pc = "idle"
  /\ \E weights \in WeightSet :
       /\ bot' = [weights |-> weights, k |-> 1,
                  bad |-> [piece |-> WorstOrder[1], score |-> INFINITY],
                  visited |-> {}, ret |-> None,
                  stack |-> << Frame(PieceStart(well, WorstOrder[1]), "enter", << >>) >>]
       /\ last' = Call("worst_piece", << weights >>, None)
  /\ pc' = "worsting"
  /\ pre' = Entry(well, player)
  /\ UNCHANGED << well, player, cl, nops >>

\* a call or a return of rec, or the fold over one piece
WorstStep ==
  /\ pc = "worsting"
  /\ bot.k <= Len(WorstOrder)
  /\ bot' = WorstLoop(well, bot)
  /\ UNCHANGED << well, player, pc, cl, last, pre, nops >>

\* the fold is over: the piece of the accumulator is returned
WorstEnd ==
  /\ pc = "worsting"
  /\ bot.k > Len(WorstOrder)
  /\ pc' = "worsted"
  /\ last' = Call("worst_piece", last.arg, Some(bot.bad.piece))
  /\ UNCHANGED << well, player, cl, pre, nops, bot >>

NextWorst ==
  \/ WorstBegin
  \/ WorstStep
  \/ WorstEnd

SpecWorst == InitWorst /\ [][NextWorst]_vars

\* the legal states one move or one plain rotation away from p
PlainNeighbours(w, p) ==
  { q \in { Moved(p, 0, -1), Moved(p, -1, 0), Moved(p, 1, 0),
            PlayerNew(p.piece, (p.rot + 1) % 4, p.pt),
            PlayerNew(p.piece, (p.rot + 3) % 4, p.pt) } : ~IllegalPlayer(w, q) }

RECURSIVE PlainReachFrom(_, _, _)
PlainReachFrom(w, seen, frontier) ==
  IF frontier = {} THEN seen
  ELSE LET new == (UNION { PlainNeighbours(w, p) : p \in frontier }) \ seen
       IN  PlainReachFrom(w, seen \cup new, new)

\* the best score of a piece: the highest eval over the resting states the
\* flood of PlayI::piece can reach
PieceBestScore(weights, w, piece) ==
  LET start == PieceStart(w, piece)
      reach == IF IllegalPlayer(w, start) THEN {}
               ELSE PlainReachFrom(w, {start}, {start})
  IN  BestOf({ Placed(weights, w, p) :
                 p \in { q \in reach : IllegalPlayer(w, Moved(q, 0, -1)) } })

\* PlayI::worst_piece returns the first piece in the order S, Z, O, I, L, J,
\* T whose best score is minimal
WorstPieceHasLowestBestScore ==
  pc = "worsted" =>
    FirstWorst(last.ret[1], [q \in PieceSet |-> PieceBestScore(last.arg[1], well, q)])

(***************************************************************************)
(* Well::count_holes on its own: one call on a well built by               *)
(* Well::from_data.                                                        *)
(***************************************************************************)
\* the wells count_holes is called on: every 4 x 4 board under four top
\* rows, and wider boards with pockets
HoleWells ==
  { FromData(4, << a, b, c, d >>) :
      a \in {\b0000, \b0100, \b1000, \b0001}, b \in 0 .. 15,
      c \in 0 .. 15, d \in {\b0000, \b1010, \b0110, \b1101} }
    \cup { FromData(6, << a, b, c, \b000000 >>) :
             a \in {\b000000, \b010000, \b000010, \b110011},
             b \in {\b000000, \b011011, \b101101, \b010010},
             c \in {\b000000, \b100001, \b011110, \b110111} }
    \cup WellInputs

InitHoles ==
  /\ well \in HoleWells
  /\ player = None
  /\ pc = "idle"
  /\ cl = NoClear
  /\ last = Call("from_data", << >>, TRUE)
  /\ pre = Entry(well, player)
  /\ nops = 0
  /\ bot = NoBot

CallCountHoles ==
  /\ last.op = "from_data"
  /\ WellCall("count_holes", << >>, CountHoles(well), well)

NextHoles ==
  \/ CallCountHoles

SpecHoles == InitHoles /\ [][NextHoles]_vars

(***************************************************************************)
(* C21.  For every well whose seed cell (column width/2 of the top row) is *)
(* empty, Well::count_holes is the number of empty cells that no path of   *)
(* horizontally or vertically adjacent empty cells joins to the seed cell. *)
(***************************************************************************)
\* the empty cells << col, row >> of the board
EmptyCells(w) ==
  { cell \in (0 .. (w.width - 1)) \X (0 .. (w.height - 1)) :
      ~Occupied(w, cell[1], cell[2]) }

\* the cells next to a cell, horizontally or vertically
Adjacent(cell) ==
  { << cell[1] - 1, cell[2] >>, << cell[1] + 1, cell[2] >>,
    << cell[1], cell[2] - 1 >>, << cell[1], cell[2] + 1 >> }

\* the empty cells joined to the cells of `seen` by paths of empty cells
RECURSIVE Flooded(_, _)
Flooded(w, seen) ==
  LET more == (UNION { Adjacent(cell) : cell \in seen }) \cap EmptyCells(w)
  IN  IF more \subseteq seen THEN seen ELSE Flooded(w, seen \cup more)

SeedCell(w) == << w.width \div 2, w.height - 1 >>

Unreached(w) == EmptyCells(w) \ Flooded(w, {SeedCell(w)})

C21_CountHolesCountsUnreachable ==
  (last.op = "count_holes" /\ SeedCell(pre.well) \in EmptyCells(pre.well)) =>
    /\ last.ret = Cardinality(Unreached(pre.well))
    /\ well = pre.well

(***************************************************************************)
(* Test, etch, test again: a placement found legal by Well::test is        *)
(* etched and the same placement is tested against the new well.           *)
(***************************************************************************)
\* Well::etch of the placement the last call of test found legal
EtchTested ==
  /\ last.op = "test"
  /\ last.ret = FALSE
  /\ WellCall("etch_tested", last.arg, TRUE, Etch(well, last.arg[1], last.arg[2]))

\* Well::test of the placement just etched
Retest ==
  /\ last.op = "etch_tested"
  /\ WellCall("retest", last.arg, Test(well, last.arg[1], last.arg[2]), well)

NextEtchTest ==
  \/ WellTest
  \/ EtchTested
  \/ Retest

SpecEtchTest == InitWell /\ [][NextEtchTest]_vars

(***************************************************************************)
(* C22.  Collision symmetry: for all wells W, sprites S and points P with  *)
(* W.test(S, P) = false, etching S at P and then testing the same S at the *)
(* same P against the new well reports true.                               *)
(***************************************************************************)
C22_EtchedPlacementCollides ==
  last.op = "retest" => last.ret = TRUE

\* C22 as amended: the same, for the legal placements that have at least
\* one set sprite cell in a row of [0, height); the retest does not modify
\* the well
C22_EtchedPlacementInFieldCollides ==
  (/\ last.op = "retest"
   /\ \E cell \in Cells(last.arg[1], last.arg[2]) : cell[2] < pre.well.height) =>
    /\ last.ret = TRUE
    /\ well = pre.well

\* a piece placed at negative x, partly above the ceiling, was etched and
\* then collided with itself
C22_Witness ==
  /\ last.op = "retest"
  /\ last.ret = TRUE
  /\ last.arg[2].x < 0
  /\ \E cell \in Cells(last.arg[1], last.arg[2]) : cell[2] < well.height
  /\ \E cell \in Cells(last.arg[1], last.arg[2]) : cell[2] >= well.height

(***************************************************************************)
(* Well methods on their own: calls of trace_down, wall_kick and           *)
(* remove_line on a well built by Well::from_data.                         *)
(***************************************************************************)
\* offset lists handed to wall_kick besides the rows of the SRS tables
KickLists ==
  { << >>,
    << Point(0, 1) >>,
    << Point(1, 0), Point(-1, 0), Point(0, -1) >>,
    << Point(0, -1), Point(0, 0), Point(0, 0), Point(2, 1) >> }

\* sprite and offset list of a rotation: the sprite of the turned piece
\* with the table row srs_cw / srs_ccw looks up
KickInputs ==
  { << piece_sprite(piece, RotCw(rot)), srs_data_cw(piece, rot) >> :
      piece \in PieceSet, rot \in Rots }
    \cup { << piece_sprite(piece, RotCcw(rot)), srs_data_ccw(piece, rot) >> :
             piece \in PieceSet, rot \in Rots }
    \cup { << piece_sprite(piece, 0), kicks >> :
             piece \in {"I", "T", "O"}, kicks \in KickLists }

CallTraceDown ==
  /\ last.op = "from_data"
  /\ \E sprite \in Sprites, pt \in PointsOf(well) :
       WellCall("trace_down", << sprite, pt >>, TraceDown(well, sprite, pt), well)

\* trace_down from the point the last call of trace_down returned
CallTraceDownAgain ==
  /\ last.op = "trace_down"
  /\ WellCall("trace_down_again", << last.arg[1], last.ret >>,
              TraceDown(well, last.arg[1], last.ret), well)

CallWallKick ==
  /\ last.op = "from_data"
  /\ \E input \in KickInputs, pt \in PointsOf(well) :
       WellCall("wall_kick", << input[1], input[2], pt >>,
                WallKick(well, input[1], input[2], pt), well)

CallRemoveLine ==
  /\ last.op = "from_data"
  /\ \E row \in 0 .. (well.height - 1) :
       WellCall("remove_line", << row >>, Line(well, row), RemoveLine(well, row))

NextMethods ==
  \/ CallTraceDown
  \/ CallTraceDownAgain
  \/ CallWallKick
  \/ CallRemoveLine

SpecMethods == InitWell /\ [][NextMethods]_vars

(***************************************************************************)
(* C23.  Well::trace_down(S, P) returns the highest point Q at or below P  *)
(* in the same column (Q.x = P.x, Q.y <= P.y) whose one-row-down neighbour *)
(* is illegal; tracing down again from Q returns Q; for a legal P every    *)
(* point from P down to Q is legal; the well is not modified.              *)
(***************************************************************************)
C23_TraceDownRests ==
  /\ last.op = "trace_down" =>
       LET sprite == last.arg[1]
           P == last.arg[2]
           Q == last.ret
       IN  /\ Q.x = P.x
           /\ Q.y <= P.y
           /\ Illegal(pre.well, sprite, Point(Q.x, Q.y - 1))
           /\ \A y \in (Q.y + 1) .. P.y : ~Illegal(pre.well, sprite, Point(P.x, y - 1))
           /\ ~Illegal(pre.well, sprite, P) =>
                \A y \in Q.y .. P.y : ~Illegal(pre.well, sprite, Point(P.x, y))
           /\ well = pre.well
  /\ last.op = "trace_down_again" =>
       /\ last.ret = last.arg[2]
       /\ well = pre.well

\* a legal point high above blocks was traced down by more than three rows
\* onto blocks, not onto the floor, and tracing again stayed there
C23_Witness ==
  /\ last.op = "trace_down_again"
  /\ last.ret = last.arg[2]
  /\ last.ret.y > 3
  /\ \E cell \in Cells(last.arg[1], last.ret) :
       cell[2] >= 1 /\ Occupied(well, cell[1], cell[2] - 1)
  /\ \A cell \in Cells(last.arg[1], last.ret) : cell[2] >= 1

(***************************************************************************)
(* C24.  Well::wall_kick(sprite, kicks, pt) returns Some(pt + k) for the   *)
(* first offset k in the given order for which the placement at pt + k is  *)
(* legal, never a later one, and None exactly when every offset collides.  *)
(***************************************************************************)
\* the indices of the offsets that give a legal placement
LegalKicks(w, sprite, kicks, pt) ==
  { i \in 1 .. Len(kicks) :
      ~Illegal(w, sprite, Point(pt.x + kicks[i].x, pt.y + kicks[i].y)) }

C24_WallKickTakesFirstLegal ==
  last.op = "wall_kick" =>
    LET kicks == last.arg[2]
        pt == last.arg[3]
        ok == LegalKicks(pre.well, last.arg[1], kicks, pt)
    IN  /\ (last.ret = None) <=> (ok = {})
        /\ ok # {} =>
             \E i \in ok :
               /\ \A j \in ok : i <= j
               /\ last.ret = Some(Point(pt.x + kicks[i].x, pt.y + kicks[i].y))
        /\ well = pre.well

\* the first offset collided, two later offsets with different results were
\* legal and the earlier of them was returned
C24_Witness ==
  /\ last.op = "wall_kick"
  /\ LET kicks == last.arg[2]
         pt == last.arg[3]
         ok == LegalKicks(well, last.arg[1], kicks, pt)
     IN  /\ 1 \notin ok
         /\ \E i \in ok, j \in ok :
              /\ i < j
              /\ kicks[i] # kicks[j]
              /\ \A k \in ok : i <= k
              /\ last.ret = Some(Point(pt.x + kicks[i].x, pt.y + kicks[i].y))

\* every offset collided and None was returned, for a sprite inside the
\* walls
C24_WitnessNone ==
  /\ last.op = "wall_kick"
  /\ last.ret = None
  /\ Len(last.arg[2]) = 5
  /\ last.arg[3].x \in 0 .. (well.width - 4)
  /\ last.arg[3].y \in 3 .. (well.height - 1)

(***************************************************************************)
(* C27.  Well::remove_line(row) returns the previous content of that row,  *)
(* moves every row above it down by one, leaves the rows below it          *)
(* unchanged and leaves an empty row at the top (row height-1), for every  *)
(* well size, including height = MAX_HEIGHT.                               *)
(***************************************************************************)
C27_RemoveLineShiftsDown ==
  last.op = "remove_line" =>
    LET row == last.arg[1]
        height == pre.well.height
    IN  /\ last.ret = pre.well.field[row]
        /\ \A i \in 0 .. (row - 1) : well.field[i] = pre.well.field[i]
        /\ \A i \in row .. (height - 2) : well.field[i] = pre.well.field[i + 1]
        /\ well.field[height - 1] = {}
        /\ well.width = pre.well.width
        /\ well.height = height

(***************************************************************************)
(* Rotations on their own: a player is turned by Player::rotate_cw and     *)
(* Player::rotate_ccw (Rot::cw, Rot::ccw), and the kick table of a turn of *)
(* the current player is looked up.                                        *)
(***************************************************************************)
InitRot ==
  /\ well = WellNew(MIN_WIDTH, MIN_HEIGHT)
  /\ \E piece \in PieceSet, rot \in Rots :
       player = Some(PlayerNew(piece, rot, Point(0, 2)))
  /\ pc = "idle"
  /\ cl = NoClear
  /\ last = Call("new", << >>, TRUE)
  /\ pre = Entry(well, player)
  /\ nops = 0
  /\ bot = NoBot

\* one more turn of the player; last.arg lists the turns made since
\* Player::new and pre keeps the player Player::new returned
Turn(op, next) ==
  /\ last.op \in {"new", "turn"}
  /\ nops < MaxTurns
  /\ player' = Some(next)
  /\ last' = Call("turn", Append(last.arg, op), next.rot)
  /\ nops' = nops + 1
  /\ UNCHANGED << well, pc, cl, pre, bot >>

TurnCw == Turn("cw", PlayerRotateCw(player[1]))

TurnCcw == Turn("ccw", PlayerRotateCcw(player[1]))

\* the table row srs_cw / srs_ccw looks up for the current player
Lookup(op, kicks) ==
  /\ last.op \in {"new", "turn"}
  /\ last' = Call(op, << player[1].piece, player[1].rot >>, kicks)
  /\ UNCHANGED << well, player, pc, cl, pre, nops, bot >>

LookupCw == Lookup("srs_data_cw", srs_data_cw(player[1].piece, player[1].rot))

LookupCcw == Lookup("srs_data_ccw", srs_data_ccw(player[1].piece, player[1].rot))

NextRot ==
  \/ TurnCw
  \/ TurnCcw
  \/ LookupCw
  \/ LookupCcw

SpecRot == InitRot /\ [][NextRot]_vars

(***************************************************************************)
(* C25.  The kick tables used by srs_data_cw / srs_data_ccw are the        *)
(* standard SRS tables: for both piece classes and every pair of adjacent  *)
(* rotation states A and B, the first offset is (0, 0) and the offset list *)
(* used for the counter-clockwise turn B -> A is the element-wise negation *)
(* of the list used for the clockwise turn A -> B.                         *)
(***************************************************************************)
Negated(kicks) == [i \in 1 .. Len(kicks) |-> Point(-kicks[i].x, -kicks[i].y)]

C25_CcwKicksNegateCwKicks ==
  /\ last.op \in {"srs_data_cw", "srs_data_ccw"} =>
       /\ Len(last.ret) = 5
       /\ last.ret[1] = Point(0, 0)
  /\ last.op = "srs_data_ccw" =>
       \* the turn B -> A, with B the rotation of the player
       LET B == last.arg[2]
           A == RotCcw(B)
       IN  last.ret = Negated(srs_data_cw(last.arg[1], A))
  /\ last.op = "srs_data_cw" =>
       \* the turn A -> B, with A the rotation of the player
       LET A == last.arg[2]
           B == RotCw(A)
       IN  srs_data_ccw(last.arg[1], B) = Negated(last.ret)

(***************************************************************************)
(* C28.  Rotation group law: for every rotation state r, r.cw().ccw() = r  *)
(* and r.ccw().cw() = r, applying cw four times (or ccw four times)        *)
(* returns r, Zero.cw() = Right and Zero.ccw() = Left; cw and ccw never    *)
(* produce a value outside the four states.                                *)
(***************************************************************************)
C28_RotationGroupLaw ==
  last.op = "turn" =>
    LET r == pre.player[1].rot
        now == player[1].rot
    IN  /\ now \in Rots
        /\ last.ret = now
        /\ last.arg \in { << "cw", "ccw" >>, << "ccw", "cw" >>,
                          << "cw", "cw", "cw", "cw" >>,
                          << "ccw", "ccw", "ccw", "ccw" >> } => now = r
        /\ (r = 0 /\ last.arg = << "cw" >>) => now = 1
        /\ (r = 0 /\ last.arg = << "ccw" >>) => now = 3
        /\ player[1].piece = pre.player[1].piece
        /\ player[1].pt = pre.player[1].pt

\* four clockwise turns from Left passed through Zero and came back to Left
C28_Witness ==
  /\ last.op = "turn"
  /\ last.arg = << "cw", "cw", "cw", "cw" >>
  /\ pre.player[1].rot = 3
  /\ player[1].rot = 3

(***************************************************************************)
(* Construction: one call of Well::new with dimensions drawn from i8.      *)
(***************************************************************************)
\* the dimensions tried: around both ends of the accepted ranges, and the
\* ends of i8
NewWidths == ((-2) .. 20) \cup {-128, 127}
NewHeights == ((-2) .. 27) \cup {-128, 127}

InitNew ==
  /\ well = None
  /\ player = None
  /\ pc = "idle"
  /\ cl = NoClear
  /\ last = Call("start", << >>, TRUE)
  /\ pre = Entry(well, player)
  /\ nops = 0
  /\ bot = NoBot

\* Well::new returns the well
CallNew ==
  /\ last.op = "start"
  /\ \E width \in NewWidths, height \in NewHeights :
       /\ WellNewOk(width, height)
       /\ well' = WellNew(width, height)
       /\ last' = Call("new", << width, height >>, "ok")
  /\ pre' = Entry(well, player)
  /\ nops' = nops + 1
  /\ UNCHANGED << player, pc, cl, bot >>

\* Well::new panics in one of its assertions
CallNewPanics ==
  /\ last.op = "start"
  /\ \E width \in NewWidths, height \in NewHeights :
       /\ ~WellNewOk(width, height)
       /\ last' = Call("new", << width, height >>, "panic")
  /\ pc' = "panicked"
  /\ pre' = Entry(well, player)
  /\ nops' = nops + 1
  /\ UNCHANGED << well, player, cl, bot >>

NextNew ==
  \/ CallNew
  \/ CallNewPanics

SpecNew == InitNew /\ [][NextNew]_vars

(***************************************************************************)
(* C26.  Well::new(width, height) succeeds and returns a well with all     *)
(* rows empty for every width in [4, 16] and every height in [4, 23], and  *)
(* fails (panics) for every other pair of dimensions.                      *)
(***************************************************************************)
\* the call returned an empty well of the dimensions asked for
NewReturnedEmptyWell ==
  /\ last.ret = "ok"
  /\ pc = "idle"
  /\ well.width = last.arg[1]
  /\ well.height = last.arg[2]
  /\ \A i \in DOMAIN well.field : well.field[i] = {}
  /\ \A i \in 0 .. (well.height - 1) : i \in DOMAIN well.field

\* the call panicked and returned no well
NewPanicked ==
  /\ last.ret = "panic"
  /\ pc = "panicked"
  /\ well = None

C26_NewAcceptsWidthsUpTo16 ==
  last.op = "new" =>
    IF last.arg[1] \in 4 .. 16 /\ last.arg[2] \in 4 .. 23
    THEN NewReturnedEmptyWell
    ELSE NewPanicked

\* C26 as amended: the widths accepted are those in [4, 12]
C26_NewAcceptsWidthsUpTo12 ==
  last.op = "new" =>
    IF last.arg[1] \in 4 .. 12 /\ last.arg[2] \in 4 .. 23
    THEN NewReturnedEmptyWell
    ELSE NewPanicked

\* the largest well was built
C26_Witness ==
  /\ last.op = "new"
  /\ last.arg = << 12, 23 >>
  /\ NewReturnedEmptyWell

\* a well one column too wide was refused
C26_WitnessRefused ==
  /\ last.op = "new"
  /\ last.arg = << 13, 4 >>
  /\ NewPanicked

(***************************************************************************)
(* C30.  On a State with no active player, move_left, move_right,          *)
(* rotate_cw, rotate_ccw, soft_drop, gravity and hard_drop return false    *)
(* and lock does nothing; in all these cases the well is unchanged and the *)
(* player slot stays empty.                                                *)
(***************************************************************************)
PlayerCommands ==
  {"move_left", "move_right", "rotate_cw", "rotate_ccw", "soft_drop",
   "gravity", "hard_drop"}

C30_NoPlayerNoEffect ==
  (last.op \in PlayerCommands \cup {"lock"} /\ pre.player = None) =>
    /\ last.op \in PlayerCommands => last.ret = FALSE
    /\ well = pre.well
    /\ player = None

\* after a piece was locked into the well, a hard drop without a player
\* was refused
C30_Witness ==
  /\ last.op = "hard_drop"
  /\ pre.player = None
  /\ last.ret = FALSE
  /\ nops >= 3
  /\ pc = "idle"
  /\ \E w \in GameWells : Cardinality(Blocks(well)) = Cardinality(Blocks(w)) + 4

(***************************************************************************)
(* Parsing a well from text (impl FromStr for Well).  A text is the        *)
(* sequence of its lines (str::lines), a line a sequence of characters.    *)
(***************************************************************************)
\* the characters of the texts: the wall, the blank, an ASCII glyph and the
\* three-byte glyph Display prints
Chars == {"|", " ", "X", "#"}

\* the length in bytes of a character in UTF-8 ("#" stands for U+25A1)
Utf8Len(c) == IF c = "#" THEN 3 ELSE 1

\* str::len: the length of a line in bytes
RECURSIVE ByteLen(_)
ByteLen(line) ==
  IF line = << >> THEN 0 ELSE Utf8Len(Head(line)) + ByteLen(Tail(line))

\* str::trim_right
RECURSIVE TrimRight(_)
TrimRight(line) ==
  IF line # << >> /\ line[Len(line)] = " "
  THEN TrimRight(SubSeq(line, 1, Len(line) - 1))
  ELSE line

Err(kind) == [tag |-> kind]
Ok(w) == [tag |-> "Ok", well |-> w]

\* the loop over the characters between the walls: the row and its width,
\* or OutWidth
RECURSIVE ParseChars(_, _, _, _)
ParseChars(inner, i, w, row) ==
  IF i > Len(inner) THEN [tag |-> "row", w |-> w, row |-> row]
  ELSE LET row1 == IF inner[i] = " " THEN row ELSE row \cup {w}
           w1 == w + 1
       IN  IF w1 >= MAX_WIDTH THEN Err("OutWidth")
           ELSE ParseChars(inner, i + 1, w1, row1)

\* the loop over the lines; width is an Option
RECURSIVE ParseLines(_, _, _, _, _)
ParseLines(text, n, width, height, field) ==
  IF n > Len(text)
  THEN IF width # None
       THEN Ok([width |-> width[1], height |-> height, field |-> field])
       ELSE Err("Empty")
  ELSE
    LET line == TrimRight(text[n])
    IN  IF ByteLen(line) < 3 THEN Err("BadWalls")
        ELSE IF line[1] # "|" \/ line[Len(line)] # "|" THEN Err("BadWalls")
        ELSE
          LET r == ParseChars(SubSeq(line, 2, Len(line) - 1), 1, 0, {})
          IN  IF r.tag = "OutWidth" THEN r
              ELSE IF width # None /\ width[1] # r.w THEN Err("InWidth")
              ELSE LET field1 == [field EXCEPT ![height] = r.row]
                       height1 == height + 1
                   IN  IF height1 >= MAX_HEIGHT THEN Err("OutHeight")
                       ELSE ParseLines(text, n + 1, Some(r.w), height1, field1)

\* Well::from_str
FromStr(text) == ParseLines(text, 1, None, 0, [i \in Rows |-> {}])

\* a line with walls around the given glyphs
Walled(inner) == << "|" >> \o inner \o << "|" >>

\* a row of the given width: blank, full, or with one glyph in three
RowOf(width, style) ==
  Walled([c \in 1 .. width |->
            IF style = 0 THEN " "
            ELSE IF style = 1 THEN "X"
            ELSE IF c % 3 = 1 THEN "#" ELSE " "])

\* the lines that take the place of one row of a text: walled rows one
\* column narrower or wider, rows followed by blanks, and lines without
\* walls or shorter than three characters
OddLines(width) ==
  { RowOf(width + 1, 1), RowOf(width - 1, 0), RowOf(width, 1) \o << " ", " " >>,
    << >>, << " ", " " >>, << "|", "|" >>, << "|" >>, << "#" >>,
    << "|", "X", "X" >>, << "X", "X", "|" >>, << " ", "|", "X", "|" >>,
    << "|", "#" >>, << "X", "X", "X", "X" >> }

\* the widths and heights of the texts
TextWidths == {1, 2, 4, MAX_WIDTH - 2, MAX_WIDTH - 1, MAX_WIDTH, MAX_WIDTH + 1, SIZE_OF_WIDTH}
TextHeights == {0, 1, 2, 4, MAX_HEIGHT - 2, MAX_HEIGHT - 1, MAX_HEIGHT, MAX_HEIGHT + 1}

\* the texts parsed: rows of one width and style, with at most one line
\* replaced by an odd line
Texts ==
  UNION { { [n \in 1 .. height |-> RowOf(width, style)] : style \in 0 .. 2 }
            \cup { [n \in 1 .. height |-> IF n = at THEN odd ELSE RowOf(width, 2)] :
                     at \in {1, 2, height} \cap (1 .. height), odd \in OddLines(width) } :
          width \in TextWidths, height \in TextHeights }

\* from_str returns Ok(well)
CallFromStr ==
  /\ last.op = "start"
  /\ \E text \in Texts :
       LET r == FromStr(text)
       IN  /\ r.tag = "Ok"
           /\ well' = r.well
           /\ last' = Call("from_str", << text >>, r.tag)
  /\ pre' = Entry(well, player)
  /\ nops' = nops + 1
  /\ UNCHANGED << player, pc, cl, bot >>

\* from_str returns Err(kind)
CallFromStrErr ==
  /\ last.op = "start"
  /\ \E text \in Texts :
       LET r == FromStr(text)
       IN  /\ r.tag # "Ok"
           /\ last' = Call("from_str", << text >>, r.tag)
  /\ pre' = Entry(well, player)
  /\ nops' = nops + 1
  /\ UNCHANGED << well, player, pc, cl, bot >>

NextParse ==
  \/ CallFromStr
  \/ CallFromStrErr

SpecParse == InitNew /\ [][NextParse]_vars

(***************************************************************************)
(* C29.  Parsing a text well never panics and classifies its input: no     *)
(* lines give Empty; a line shorter than 3 characters or not beginning and *)
(* ending with '|' gives BadWalls; rows of different interior width give   *)
(* InWidth; OutWidth / OutHeight are given only when the interior width /  *)
(* the number of rows exceeds MAX_WIDTH / MAX_HEIGHT; every text whose     *)
(* rows all have the same interior width w <= MAX_WIDTH and whose row      *)
(* count is <= MAX_HEIGHT is accepted with Ok.  Lines are read without     *)
(* their trailing blanks, and each clause about a fault is stated for the  *)
(* texts that have no other fault.                                         *)
(***************************************************************************)
\* a line without its trailing blanks
Body(line) ==
  LET glyphs == { k \in 1 .. Len(line) : line[k] # " " }
  IN  IF glyphs = {} THEN << >>
      ELSE SubSeq(line, 1, CHOOSE k \in glyphs : \A j \in glyphs : j <= k)

\* the line has three characters or more and begins and ends with '|'
WellWalled(line) ==
  LET body == Body(line)
  IN  Len(body) >= 3 /\ body[1] = "|" /\ body[Len(body)] = "|"

\* the number of characters between the walls
InteriorWidth(line) == Len(Body(line)) - 2

\* the interior widths of the walled lines of a text
WidthsOf(text) ==
  { InteriorWidth(text[n]) : n \in { k \in 1 .. Len(text) : WellWalled(text[k]) } }

ParseResults == {"Ok", "Empty", "BadWalls", "InWidth", "OutWidth", "OutHeight"}

\* the classification of a text with the given bounds on width and height
Classified(text, ret, maxWidth, maxHeight) ==
  LET walled == \A n \in 1 .. Len(text) : WellWalled(text[n])
      widths == WidthsOf(text)
      fits == /\ \A w \in widths : w <= maxWidth
              /\ Len(text) <= maxHeight
  IN  /\ ret \in ParseResults
      /\ (ret = "Empty") <=> (Len(text) = 0)
      /\ ret = "BadWalls" => ~walled
      /\ ret = "InWidth" => Cardinality(widths) > 1
      /\ ret = "OutWidth" => \E w \in widths : w > maxWidth
      /\ ret = "OutHeight" => Len(text) > maxHeight
      /\ (~walled /\ Cardinality(widths) <= 1 /\ fits) => ret = "BadWalls"
      /\ (walled /\ Cardinality(widths) > 1 /\ fits) => ret = "InWidth"
      /\ (walled /\ Cardinality(widths) = 1 /\ fits) => ret = "Ok"

C29_ParseClassifies ==
  last.op = "from_str" =>
    /\ Classified(last.arg[1], last.ret, MAX_WIDTH, MAX_HEIGHT)
    /\ last.ret = "Ok" =>
         /\ well.width = InteriorWidth(last.arg[1][1])
         /\ well.height = Len(last.arg[1])
    /\ last.ret # "Ok" => well = pre.well

(***************************************************************************)
(* The Random Generator (OfficialBag).  The variable bot holds the bag     *)
(* with two records kept for the properties: the pieces dealt so far and   *)
(* one answer of peek with the number of pieces dealt before it.           *)
(***************************************************************************)
\* the outcomes of Rng::shuffle tried: position i of the shuffled slice
\* takes the element at position perm[i]
Shuffles ==
  { << 1, 2, 3, 4, 5, 6, 7 >>, << 7, 6, 5, 4, 3, 2, 1 >>,
    << 2, 3, 4, 5, 6, 7, 1 >>, << 3, 7, 1, 5, 2, 6, 4 >> }

Shuffled(slice, perm) == [i \in 1 .. 7 |-> slice[perm[i]]]

\* OfficialBag::with_rng
OfficialBagNew == [bag |-> Pieces \o Pieces, pos |-> 255]

\* OfficialBag::next starting a refilled bag at its second piece
OfficialBagNextSkipsFirst(b, s1, s2) ==
  LET left == SubSeq(b.bag, 1, 7)
      right == SubSeq(b.bag, 8, 14)
      right1 == IF b.pos >= 14 THEN Shuffled(right, s1) ELSE right
      refill == b.pos >= 7
      left2 == IF refill THEN right1 ELSE left
      right2 == IF refill THEN Shuffled(right1, s2) ELSE right1
      pos2 == IF refill THEN 1 ELSE b.pos
  IN  [bag |-> left2 \o right2, pos |-> (pos2 + 1) % 256,
       ret |-> Some(left2[pos2 + 1])]

\* OfficialBag::next: the bag after the call and the value returned; s1 and
\* s2 are the outcomes of the two calls of shuffle
OfficialBagNext(b, s1, s2) ==
  LET left == SubSeq(b.bag, 1, 7)
      right == SubSeq(b.bag, 8, 14)
      right1 == IF b.pos >= 14 THEN Shuffled(right, s1) ELSE right
      refill == b.pos >= 7
      left2 == IF refill THEN right1 ELSE left
      right2 == IF refill THEN Shuffled(right1, s2) ELSE right1
      pos2 == IF refill THEN 0 ELSE b.pos
  IN  [bag |-> left2 \o right2, pos |-> (pos2 + 1) % 256,
       ret |-> Some(left2[pos2 + 1])]

\* OfficialBag::peek: the slice bag[pos .. pos + 7], which must lie inside
\* the fourteen entries
PeekInRange(b) == b.pos + 7 <= Len(b.bag)
OfficialBagPeek(b) == SubSeq(b.bag, b.pos + 1, b.pos + 7)

InitBag ==
  /\ well \in { WellNew(10, 22) }
  /\ player = None
  /\ pc = "idle"
  /\ cl = NoClear
  /\ last = Call("with_rng", << >>, TRUE)
  /\ pre = Entry(well, player)
  /\ nops = 0
  /\ bot = [bag |-> OfficialBagNew.bag, pos |-> OfficialBagNew.pos,
            dealt |-> << >>, peeked |-> None]

\* a call of next; the shuffles it does not make leave no trace
BagNext ==
  /\ pc = "idle"
  /\ nops < MaxDeals
  /\ \E s1 \in IF bot.pos >= 14 THEN Shuffles ELSE { << >> },
        s2 \in IF bot.pos >= 7 THEN Shuffles ELSE { << >> } :
       LET r == OfficialBagNext(bot, s1, s2)
       IN  /\ bot' = [bot EXCEPT !.bag = r.bag, !.pos = r.pos,
                                 !.dealt = Append(@, r.ret[1])]
           /\ last' = Call("next", << >>, r.ret)
  /\ nops' = nops + 1
  /\ UNCHANGED << well, player, pc, cl, pre >>

\* a call of peek that returns; the first answer is kept
BagPeek ==
  /\ pc = "idle"
  /\ bot.peeked = None
  /\ PeekInRange(bot)
  /\ bot' = [bot EXCEPT !.peeked = Some([at |-> Len(bot.dealt),
                                         pieces |-> OfficialBagPeek(bot)])]
  /\ last' = Call("peek", << >>, OfficialBagPeek(bot))
  /\ UNCHANGED << well, player, pc, cl, pre, nops >>

\* a call of peek whose slice is out of range: the call panics
BagPeekPanics ==
  /\ pc = "idle"
  /\ ~PeekInRange(bot)
  /\ pc' = "panicked"
  /\ last' = Call("peek", << >>, "panic")
  /\ UNCHANGED << well, player, cl, pre, nops, bot >>

NextBag ==
  \/ BagNext
  \/ BagPeek
  \/ BagPeekPanics

SpecBag == InitBag /\ [][NextBag]_vars

(***************************************************************************)
(* C31.  OfficialBag::next deals pieces in bags of seven: for every        *)
(* k >= 0 and every outcome of the shuffles, the pieces returned by calls  *)
(* 7k+1 .. 7k+7 are a permutation of the seven tetrominoes, and next never *)
(* returns None.                                                           *)
(***************************************************************************)
\* the calls 7k+1 .. 7k+7 have all been made
BagsDealt == { k \in 0 .. (MaxDeals \div 7) : 7 * k + 7 <= Len(bot.dealt) }

C31_NextDealsBagsOfSeven ==
  /\ \A k \in BagsDealt :
       { bot.dealt[7 * k + i] : i \in 1 .. 7 } = PieceSet
  /\ last.op = "next" =>
       /\ last.ret # None
       /\ last.ret[1] \in PieceSet
       /\ pc = "idle"

\* two bags were dealt in different orders, the second not beginning with
\* the piece the first ended with
C31_Witness ==
  /\ last.op = "next"
  /\ Len(bot.dealt) = 14
  /\ SubSeq(bot.dealt, 1, 7) # SubSeq(bot.dealt, 8, 14)
  /\ SubSeq(bot.dealt, 1, 7) # Pieces
  /\ bot.dealt[8] # bot.dealt[1]

(***************************************************************************)
(* C32.  At any point in the life of an OfficialBag, peek() returns a      *)
(* slice of exactly seven pieces, and these are the pieces that the next   *)
(* seven calls to next() return, in the same order.                        *)
(***************************************************************************)
C32_PeekShowsNextSeven ==
  /\ last.op = "peek" =>
       /\ last.ret # "panic"
       /\ Len(last.ret) = 7
  /\ pc # "panicked"
  /\ bot.peeked # None =>
       LET at == bot.peeked[1].at
           pieces == bot.peeked[1].pieces
       IN  \A i \in 1 .. 7 :
             at + i <= Len(bot.dealt) => bot.dealt[at + i] = pieces[i]

(***************************************************************************)
(* A game from State::new: any interleaving of the commands on a well that *)
(* starts empty.  The variable bot keeps three facts about the run:        *)
(*   clean   every call of spawn so far returned false                     *)
(*   fresh   the active player came from a spawn that returned false and   *)
(*           only move, rotate and drop commands were called since         *)
(*   locked  the last command locked a player that was fresh               *)
(***************************************************************************)
\* the sizes given to State::new
LifeSizes == { << 4, 4 >>, << 5, 4 >> }

\* the pieces given to State::spawn
LifePieces == { "I", "T" }

\* State::new
StateNew(width, height) == Result(WellNew(width, height), None, TRUE)

InitLife ==
  /\ \E size \in LifeSizes : well = StateNew(size[1], size[2]).well
  /\ player = None
  /\ pc = "idle"
  /\ cl = NoClear
  /\ last = Call("new", << >>, TRUE)
  /\ pre = Entry(well, player)
  /\ nops = 0
  /\ bot = [clean |-> TRUE, fresh |-> FALSE, locked |-> FALSE]

\* a command that runs to completion in one step
LifeCommand(op, arg, res) ==
  /\ pc = "idle"
  /\ nops < MaxLife
  /\ well' = res.well
  /\ player' = res.player
  /\ last' = Call(op, arg, res.ret)
  /\ pre' = Entry(well, player)
  /\ nops' = nops + 1
  /\ cl' = NoClear
  /\ pc' = pc
  /\ bot' = [clean |-> IF op = "spawn" THEN bot.clean /\ ~res.ret ELSE bot.clean,
             fresh |-> IF op = "spawn" THEN ~res.ret
                       ELSE bot.fresh /\ res.player # None,
             locked |-> bot.fresh /\ player # None /\ res.player = None]

LifeMoveLeft == LifeCommand("move_left", << >>, StateMoveLeft(well, player))
LifeMoveRight == LifeCommand("move_right", << >>, StateMoveRight(well, player))
LifeRotateCw == LifeCommand("rotate_cw", << >>, StateRotateCw(well, player))
LifeRotateCcw == LifeCommand("rotate_ccw", << >>, StateRotateCcw(well, player))
LifeSoftDrop == LifeCommand("soft_drop", << >>, StateSoftDrop(well, player))
LifeHardDrop == LifeCommand("hard_drop", << >>, StateHardDrop(well, player))
LifeGravity == LifeCommand("gravity", << >>, StateGravity(well, player))
LifeLock == LifeCommand("lock", << >>, StateLock(well, player))
LifeSpawn == \E piece \in LifePieces :
               LifeCommand("spawn", << piece >>, StateSpawn(well, player, piece))

\* State::clear_lines, entry
LifeClearLinesBegin ==
  /\ pc = "idle"
  /\ nops < MaxLife
  /\ pc' = "clearing"
  /\ cl' = NoClear
  /\ last' = Call("clear_lines", << >>, TRUE)
  /\ pre' = Entry(well, player)
  /\ nops' = nops + 1
  /\ bot' = [bot EXCEPT !.fresh = FALSE, !.locked = FALSE]
  /\ UNCHANGED << well, player >>

NextLife ==
  \/ LifeMoveLeft
  \/ LifeMoveRight
  \/ LifeRotateCw
  \/ LifeRotateCcw
  \/ LifeSoftDrop
  \/ LifeHardDrop
  \/ LifeGravity
  \/ LifeLock
  \/ LifeSpawn
  \/ LifeClearLinesBegin
  \/ ClearLinesStep
  \/ ClearLinesPanics
  \/ ClearLinesEnd

SpecLife == InitLife /\ [][NextLife]_vars

(***************************************************************************)
(* C33.  In every state reachable from State::new by any interleaving of   *)
(* spawn calls that returned false, move_left, move_right, rotate_cw,      *)
(* rotate_ccw, soft_drop, gravity, hard_drop, lock and clear_lines         *)
(* (clear_lines may be called while a player is active), the active        *)
(* player, when present, is at a legal position: Well::test is false for   *)
(* it.                                                                     *)
(***************************************************************************)
C33_ActivePlayerIsLegal ==
  (bot.clean /\ pc = "idle" /\ player # None) => ~TestPlayer(well, player[1])

(***************************************************************************)
(* C34.  In every state reachable from State::new by any sequence of       *)
(* spawn, move, rotate, soft_drop, hard_drop, gravity, lock and            *)
(* clear_lines (including locking a player whose spawn collided), every    *)
(* row of the well has occupied bits only within the `width` columns of    *)
(* the well, and every storage row at index >= height is zero.             *)
(***************************************************************************)
\* the bits of the columns of the well
ColumnBits(w) == { SIZE_OF_WIDTH - 1 - col : col \in 0 .. (w.width - 1) }

C34_WellStaysInBounds ==
  \A row \in Rows :
    /\ well.field[row] \subseteq ColumnBits(well)
    /\ row >= well.height => well.field[row] = {}

\* a player whose spawn collided was locked and changed the well
C34_Witness ==
  /\ last.op = "lock"
  /\ pre.player # None
  /\ TestPlayer(pre.well, pre.player[1])
  /\ pre.player[1] = StateSpawn(pre.well, None, pre.player[1].piece).player[1]
  /\ well # pre.well

(***************************************************************************)
(* C35.  Every lock of a player that was reached from a non-colliding      *)
(* spawn by move, rotate (with kicks) and drop commands increases the      *)
(* number of occupied cells of the well by exactly 4: no cell of the       *)
(* locked piece is clipped away above the ceiling (row >= height) and none *)
(* coincides with an already occupied cell.                                *)
(***************************************************************************)
\* where the last command locked the player: hard_drop drops it first
LockedPoint ==
  IF last.op = "hard_drop"
  THEN TraceDown(pre.well, PlayerSprite(pre.player[1]), pre.player[1].pt)
  ELSE pre.player[1].pt

\* the cells of the player locked by the last command
LockedCells == Cells(PlayerSprite(pre.player[1]), LockedPoint)

\* those of them above the ceiling
ClippedCells == { cell \in LockedCells : cell[2] >= pre.well.height }

C35_LockAddsFourCells ==
  bot.locked =>
    /\ CountBlocks(well) = CountBlocks(pre.well) + 4
    /\ ClippedCells = {}
    /\ \A cell \in LockedCells : ~Occupied(pre.well, cell[1], cell[2])

(***************************************************************************)
(* C35, amended.  Every lock of a player that was reached from a           *)
(* non-colliding spawn by move, rotate (with kicks) and drop commands      *)
(* increases the number of occupied cells of the well by exactly the       *)
(* number of cells of the piece below the ceiling (row < height), which is *)
(* 4 when the whole piece is below the ceiling: the cells above the        *)
(* ceiling are clipped away, and no cell below it coincides with an        *)
(* already occupied cell.                                                  *)
(***************************************************************************)
C35_LockAddsCellsBelowCeiling ==
  bot.locked =>
    /\ Cardinality(LockedCells) = 4
    /\ CountBlocks(well) =
         CountBlocks(pre.well) + 4 - Cardinality(ClippedCells)
    /\ \A cell \in LockedCells \ ClippedCells :
         /\ ~Occupied(pre.well, cell[1], cell[2])
         /\ Occupied(well, cell[1], cell[2])

\* a piece resting on blocks was locked with a cell above the ceiling
C35_Witness ==
  /\ bot.locked
  /\ ClippedCells # {}
  /\ CountBlocks(pre.well) > 0
  /\ CountBlocks(well) < CountBlocks(pre.well) + 4

\* a whole piece was locked onto blocks below the ceiling
C35_WitnessWhole ==
  /\ bot.locked
  /\ ClippedCells = {}
  /\ CountBlocks(pre.well) > 0
  /\ CountBlocks(well) = CountBlocks(pre.well) + 4

(***************************************************************************)
(* A run of soft_drop / gravity calls on a player at any legal position.   *)
(* The variable bot keeps the player the run started with and the number   *)
(* of calls made while a player was active.  The driver keeps calling      *)
(* (gravity is applied on every tick), so the calls are weakly fair.       *)
(***************************************************************************)
\* the legal positions of a well, up to some rows above the ceiling
DropStarts(w) ==
  { pl \in { PlayerNew(piece, rot, Point(x, y)) :
               piece \in PieceSet, rot \in Rots,
               x \in (-3) .. (w.width - 1),
               y \in 0 .. (w.height + DropRowsAbove) } :
      ~TestPlayer(w, pl) }

InitDrop ==
  /\ well \in GameWells
  /\ \E pl \in DropStarts(well) : player = Some(pl)
  /\ pc = "idle"
  /\ cl = NoClear
  /\ last = Call("with_well", << >>, TRUE)
  /\ pre = Entry(well, player)
  /\ nops = 0
  /\ bot = [start |-> player[1], calls |-> 0]

DropCommand(op, res) ==
  /\ pc = "idle"
  /\ well' = res.well
  /\ player' = res.player
  /\ last' = Call(op, << >>, res.ret)
  /\ pre' = Entry(well, player)
  /\ bot' = [bot EXCEPT !.calls = IF player # None THEN @ + 1 ELSE @]
  /\ UNCHANGED << pc, cl, nops >>

DropSoftDrop == DropCommand("soft_drop", StateSoftDrop(well, player))
DropGravity == DropCommand("gravity", StateGravity(well, player))

NextDrop ==
  \/ DropSoftDrop
  \/ DropGravity

SpecDrop == InitDrop /\ [][NextDrop]_vars
SpecDropFair == SpecDrop /\ WF_vars(NextDrop)

(***************************************************************************)
(* C36.  From any state with an active player at a legal position (x, y),  *)
(* a run of consecutive soft_drop / gravity calls lowers the player by     *)
(* exactly one row per call that returns true, never changes x or the      *)
(* rotation, and ends with a call that returns false and locks the piece   *)
(* after at most y + 1 calls; the piece always comes to rest.              *)
(***************************************************************************)
\* each call so far lowered the player by one row, or locked it where it was
DropRunsDown ==
  /\ bot.calls <= bot.start.pt.y + 1
  /\ player # None =>
       /\ player[1] = [bot.start EXCEPT !.pt.y = @ - bot.calls]
       /\ well = pre.well
       /\ bot.calls > 0 => last.ret = TRUE
  /\ player = None =>
       /\ last.ret = FALSE
       /\ well = EtchPlayer(pre.well, [bot.start EXCEPT !.pt.y = @ - (bot.calls - 1)])

\* the piece came to rest: it is locked and nothing is active
AtRest == player = None /\ last.ret = FALSE /\ bot.calls >= 1

C36_SoftDropComesToRest == [] DropRunsDown /\ <> [] AtRest

\* a piece fell four rows or more and was locked on top of blocks
C36_Witness ==
  /\ AtRest
  /\ pre.player # None
  /\ bot.calls >= 5
  /\ pre.player[1].pt.y > 3
  /\ CountBlocks(pre.well) > 0

(***************************************************************************)
(* C37.  State::clear_lines terminates on every well, performing at most   *)
(* `height` row removals - including wells of height MAX_HEIGHT whose top  *)
(* row is full.                                                            *)
(***************************************************************************)
\* the removals of the call in progress or just returned: one per callback
C37_ClearLinesRemovesAtMostHeightRows ==
  last.op = "clear_lines" => Len(cl.calls) <= pre.well.height

(***************************************************************************)
(* The scene kept inside State.  In this specification the variable bot    *)
(* holds State::scene; a tile is modelled by its tile type, the only part  *)
(* of it that the properties read.                                         *)
(***************************************************************************)
SceneCols == 0 .. (MAX_WIDTH - 1)

\* a row of TILE_BG0, TILE_BG1 or TILE_BG2: all of type Background
BackgroundRow == [col \in SceneCols |-> "Background"]

\* Scene::new
SceneNew(width, height) ==
  [width |-> width, height |-> height, tiles |-> [i \in Rows |-> BackgroundRow]]

\* Scene::draw, which State::lock calls as Scene::render: the tiles of the
\* cells of the player inside the scene become tiles of type tile_ty
SceneRender(scene, pl, tile_ty) ==
  LET cells == Cells(PlayerSprite(pl), pl.pt)
  IN  [scene EXCEPT !.tiles =
         [i \in Rows |-> [col \in SceneCols |->
            IF /\ << col, i >> \in cells
               /\ col >= 0 /\ col < scene.width /\ i >= 0 /\ i < scene.height
            THEN tile_ty
            ELSE scene.tiles[i][col]]]]

\* Scene::remove_line (for row <= top); fix_bg changes no tile type
SceneRemoveLine(scene, row) ==
  LET top == scene.height - 2
  IN  [scene EXCEPT !.tiles =
         [i \in Rows |->
            IF i >= row /\ i < top THEN scene.tiles[i + 1]
            ELSE IF i = top THEN BackgroundRow
            ELSE scene.tiles[i]]]

\* the sizes given to State::new
SceneSizes == { << 4, 4 >>, << 5, 5 >> }

InitScene ==
  /\ \E size \in SceneSizes :
       /\ well = StateNew(size[1], size[2]).well
       /\ bot = SceneNew(size[1], size[2])
  /\ player = None
  /\ pc = "idle"
  /\ cl = NoClear
  /\ last = Call("new", << >>, TRUE)
  /\ pre = Entry(well, player)
  /\ nops = 0

\* a command that runs to completion in one step; one that locks the player
\* (State::lock) renders it into the scene where it was etched
SceneCommand(op, arg, res) ==
  /\ pc = "idle"
  /\ nops < MaxScene
  /\ well' = res.well
  /\ player' = res.player
  /\ last' = Call(op, arg, res.ret)
  /\ pre' = Entry(well, player)
  /\ nops' = nops + 1
  /\ cl' = NoClear
  /\ pc' = pc
  /\ bot' = IF player # None /\ res.player = None
            THEN LET pl == IF op = "hard_drop"
                           THEN [player[1] EXCEPT !.pt =
                                   TraceDown(well, PlayerSprite(player[1]), @)]
                           ELSE player[1]
                 IN  SceneRender(bot, pl, "Field")
            ELSE bot

SceneMoveLeft == SceneCommand("move_left", << >>, StateMoveLeft(well, player))
SceneMoveRight == SceneCommand("move_right", << >>, StateMoveRight(well, player))
SceneRotateCw == SceneCommand("rotate_cw", << >>, StateRotateCw(well, player))
SceneRotateCcw == SceneCommand("rotate_ccw", << >>, StateRotateCcw(well, player))
SceneSoftDrop == SceneCommand("soft_drop", << >>, StateSoftDrop(well, player))
SceneHardDrop == SceneCommand("hard_drop", << >>, StateHardDrop(well, player))
SceneLock == SceneCommand("lock", << >>, StateLock(well, player))
SceneSpawn == \E piece \in LifePieces :
                SceneCommand("spawn", << piece >>, StateSpawn(well, player, piece))

\* State::clear_lines, entry
SceneClearLinesBegin ==
  /\ pc = "idle"
  /\ nops < MaxScene
  /\ pc' = "clearing"
  /\ cl' = NoClear
  /\ last' = Call("clear_lines", << >>, TRUE)
  /\ pre' = Entry(well, player)
  /\ nops' = nops + 1
  /\ UNCHANGED << well, player, bot >>

\* State::clear_lines, one iteration of the while loop
SceneClearLinesStep ==
  /\ pc = "clearing"
  /\ cl.row < well.height
  /\ ~(/\ Line(well, cl.row) = LineMask(well)
        /\ SceneRemoveLinePanics(bot.height, cl.row))
  /\ IF Line(well, cl.row) = LineMask(well)
     THEN /\ cl' = [cl EXCEPT !.calls = Append(@, cl.row + cl.lines_cleared),
                              !.lines_cleared = @ + 1]
          /\ well' = RemoveLine(well, cl.row)
          /\ bot' = SceneRemoveLine(bot, cl.row)
     ELSE /\ cl' = [cl EXCEPT !.row = @ + 1]
          /\ well' = well
          /\ bot' = bot
  /\ UNCHANGED << player, pc, last, pre, nops >>

NextScene ==
  \/ SceneMoveLeft
  \/ SceneMoveRight
  \/ SceneRotateCw
  \/ SceneRotateCcw
  \/ SceneSoftDrop
  \/ SceneHardDrop
  \/ SceneLock
  \/ SceneSpawn
  \/ SceneClearLinesBegin
  \/ SceneClearLinesStep
  \/ ClearLinesPanics
  \/ ClearLinesEnd

SpecScene == InitScene /\ [][NextScene]_vars

(***************************************************************************)
(* C38.  The scene kept inside State stays consistent with the well: after *)
(* any sequence of spawn, move, rotate, drop, lock and clear_lines         *)
(* operations, the stored scene has a Field tile at (column, row) if and   *)
(* only if that cell is occupied in the well, and a Background tile        *)
(* otherwise.                                                              *)
(***************************************************************************)
C38_SceneMatchesWell ==
  pc = "idle" =>
    \A row \in 0 .. (well.height - 1), col \in 0 .. (well.width - 1) :
      bot.tiles[row][col] = IF Occupied(well, col, row) THEN "Field"
                            ELSE "Background"

(***************************************************************************)
(* The same grid given to Well::from_data as numbers and to Well::from_str *)
(* as text, both in visual order (top row first, column 0 leftmost).       *)
(***************************************************************************)
\* the rows of the grids, as the numbers from_data takes
GridLines(width) == { 0, 1, 6, 2 ^ (width - 1), 2 ^ width - 1 }

\* the grids: a width and four or five rows, in visual order
Grids ==
  UNION { { << width, lines >> :
              lines \in UNION { [1 .. height -> GridLines(width)] : height \in {MIN_HEIGHT, MIN_HEIGHT + 1} } } :
          width \in {4, 5, MAX_WIDTH - 1} }

\* the text of a row: column 0, the highest of the width bits, comes first
TextRow(width, line) ==
  Walled([c \in 1 .. width |-> IF (width - c) \in Bits(line) THEN "X" ELSE " "])

\* the text of a grid, one line for each row
TextOf(width, lines) == [n \in 1 .. Len(lines) |-> TextRow(width, lines[n])]

\* Well::from_data on a grid
CallFromData ==
  /\ last.op = "start"
  /\ \E grid \in Grids :
       /\ well' = FromData(grid[1], grid[2])
       /\ last' = Call("from_data", grid, "Ok")
  /\ pre' = Entry(well, player)
  /\ nops' = nops + 1
  /\ UNCHANGED << player, pc, cl, bot >>

\* str::parse::<Well> on the text of a grid
CallFromStrOfGrid ==
  /\ last.op = "start"
  /\ \E grid \in Grids :
       LET r == FromStr(TextOf(grid[1], grid[2]))
       IN  /\ well' = IF r.tag = "Ok" THEN r.well ELSE well
           /\ last' = Call("from_str", grid, r.tag)
  /\ pre' = Entry(well, player)
  /\ nops' = nops + 1
  /\ UNCHANGED << player, pc, cl, bot >>

NextGridText ==
  \/ CallFromData
  \/ CallFromStrOfGrid

SpecGridText == InitNew /\ [][NextGridText]_vars

(***************************************************************************)
(* C39.  Parsing a text grid whose rows are written top-to-bottom yields   *)
(* the same Well as Well::from_data given the same rows in visual order:   *)
(* same width and height, the last text row stored as row 0 (bottom), and  *)
(* the leftmost character of a row mapped to the same bit as column 0 of   *)
(* from_data, so that test, etch and line_mask behave identically on both. *)
(***************************************************************************)
C39_ParsedWellIsFromData ==
  last.op = "from_str" =>
    /\ last.ret = "Ok"
    /\ well = FromData(last.arg[1], last.arg[2])

(***************************************************************************)
(* The visited array of PlayI::play on wells with blocks in the top rows,  *)
(* started at the spawn position.  The search record keeps one more fact,  *)
(* looked: the players `visit` was called with.                            *)
(***************************************************************************)
\* the wells: the top rows are blocked but for one or two columns
VisitWells ==
  { FromData(4, << \b1011, \b1011, \b1011, \b1111 >>),
    FromData(4, << \b0000, \b0000, \b1001, \b1111 >>),
    FromData(5, << \b00000, \b10111, \b10111, \b11111, \b11111 >>),
    FromData(4, Stack(<< \b1011, \b1011 >>, \b1111, MAX_HEIGHT - 2)) }

InitVisit ==
  /\ well \in VisitWells
  /\ player = None
  /\ pc = "idle"
  /\ cl = NoClear
  /\ last = Call("from_data", << >>, TRUE)
  /\ pre = Entry(well, player)
  /\ nops = 0
  /\ bot = NoBot

\* PlayI::play, entry, with the player State::spawn gives
VisitBegin ==
  /\ pc = "idle"
  /\ \E piece \in PieceSet :
       LET start == PlayerNew(piece, 0, SpawnPoint(well, piece))
       IN  /\ bot' = [weights |-> DefaultWeights, start |-> start,
                      path |-> << Node("Idle", start) >>, visited |-> {},
                      best |-> [score |-> NEG_INFINITY, play |-> << >>, player |-> None],
                      pushed |-> 1, looked |-> {}]
           /\ last' = Call("play", << DefaultWeights, start >>, TRUE)
  /\ pc' = "playing"
  /\ pre' = Entry(well, player)
  /\ UNCHANGED << well, player, cl, nops >>

\* one iteration of the loop
VisitStep ==
  /\ pc = "playing"
  /\ bot.path # << >>
  /\ LET top == bot.path[Len(bot.path)]
     IN  /\ \/ top.play = "RotateCCW"
            \/ InVisited(VisitIndex(PlayNext(well, top)))
         /\ bot' = [PlayLoop(well, bot) EXCEPT
                      !.looked = IF top.play = "RotateCCW" THEN @
                                 ELSE @ \cup { PlayNext(well, top) }]
  /\ UNCHANGED << well, player, pc, cl, last, pre, nops >>

\* the index of `visit` lies outside the visited array: the call panics
VisitPanic ==
  /\ pc = "playing"
  /\ bot.path # << >>
  /\ LET top == bot.path[Len(bot.path)]
     IN  /\ top.play # "RotateCCW"
         /\ ~InVisited(VisitIndex(PlayNext(well, top)))
         /\ bot' = [bot EXCEPT !.looked = @ \cup { PlayNext(well, top) }]
  /\ pc' = "panicked"
  /\ UNCHANGED << well, player, cl, last, pre, nops >>

NextVisit ==
  \/ VisitBegin
  \/ VisitStep
  \/ VisitPanic
  \/ PlayEnd

SpecVisit == InitVisit /\ [][NextVisit]_vars

(***************************************************************************)
(* C40.  In PlayI::play and PlayI::piece, for every well of allowed size   *)
(* and every start at the spawn position, each index computed into the     *)
(* visited array, y*STRIDE + (x+3)*4 + rot, lies in [0, SIZE), and two     *)
(* different (rot, x, y) states that the search looks up never map to the  *)
(* same index (no aliasing between an out-of-range x and a neighbouring    *)
(* row).                                                                   *)
(***************************************************************************)
C40_VisitedIndexInRangeAndUnaliased ==
  pc \in {"playing", "played", "panicked"} =>
    /\ \A p \in bot.looked : InVisited(VisitIndex(p))
    /\ \A p, q \in bot.looked : VisitIndex(p) = VisitIndex(q) => p = q

=============================================================================
